---- MODULE Spec2Model ----
(***************************************************************************)
(* A model of the review core of copilot-review-agent: the unified-diff    *)
(* parser (git.ts, GitDiffEngine.parseDiff), the context-window builder    *)
(* and priority chunker (chunker.ts, buildFileContext / chunkDiffFiles)    *)
(* and the finding deduplicator (extension.ts, deduplicateFindings).       *)
(*                                                                         *)
(* Each component is a pure, synchronous function.  It is modelled as a    *)
(* small state machine over one record variable: Init draws the inputs     *)
(* from bounded sets and the actions are the steps of the function's loop. *)
(* Text is modelled as text: strings are taken apart character by          *)
(* character the way the code's regular expressions and startsWith calls   *)
(* do.                                                                     *)
(***************************************************************************)
EXTENDS Integers, Sequences, FiniteSets, TLC

VARIABLES
    dedup,      \* deduplicateFindings: its argument, loop position and locals
    chunker,    \* chunkDiffFiles: its arguments, loop position and locals
    parser,     \* parseDiff: one per-file segment, loop position and locals
    builder,    \* buildFileContext: its arguments, loop position and locals
    sorter,     \* the comparator of the priority sort: two paths, the result
    review,     \* runReview: the chunk loop, what was collected and published
    finder,     \* parseFindings: the model's reply and the findings read from it
    store,      \* ReviewStore: the stored history and the calls of its writers
    sender,     \* sendRequestWithRetry: the cached model and the sends made
    extension   \* the extension: its module-level state and the runs in flight

vars == <<dedup, chunker, parser, builder, sorter, review, finder, store, sender, extension>>

Idle == [pc |-> "idle"]

(***************************************************************************)
(* Strings, as the JavaScript string methods the code uses.                *)
(***************************************************************************)
UpperCaseLetters == "ABCDEFGHIJKLMNOPQRSTUVWXYZ"
LowerCaseLetters == "abcdefghijklmnopqrstuvwxyz"
DecimalDigits == "0123456789"

CharAt(s, i) == SubSeq(s, i, i)

CharIn(c, class) == \E i \in 1..Len(class) : CharAt(class, i) = c

\* String.prototype.startsWith
StartsWith(s, prefix) ==
    /\ Len(s) >= Len(prefix)
    /\ SubSeq(s, 1, Len(prefix)) = prefix

LowerChar(c) ==
    IF CharIn(c, UpperCaseLetters)
    THEN CharAt(LowerCaseLetters,
                CHOOSE i \in 1..Len(UpperCaseLetters) : CharAt(UpperCaseLetters, i) = c)
    ELSE c

\* String.prototype.toLowerCase
RECURSIVE ToLowerCase(_)
ToLowerCase(s) ==
    IF s = "" THEN "" ELSE LowerChar(Head(s)) \o ToLowerCase(Tail(s))

\* the character class [a-z0-9]
IsLowerAlnum(c) == CharIn(c, LowerCaseLetters) \/ CharIn(c, DecimalDigits)

\* .replace(/[^a-z0-9]+/g, ' '): every maximal run of other characters
\* becomes one space
RECURSIVE ReplaceNonAlnumRuns(_, _)
ReplaceNonAlnumRuns(s, inRun) ==
    IF s = "" THEN ""
    ELSE IF IsLowerAlnum(Head(s))
         THEN Head(s) \o ReplaceNonAlnumRuns(Tail(s), FALSE)
         ELSE (IF inRun THEN "" ELSE " ") \o ReplaceNonAlnumRuns(Tail(s), TRUE)

RECURSIVE TrimStart(_)
TrimStart(s) ==
    IF s # "" /\ Head(s) = " " THEN TrimStart(Tail(s)) ELSE s

RECURSIVE TrimEnd(_)
TrimEnd(s) ==
    IF s # "" /\ CharAt(s, Len(s)) = " "
    THEN TrimEnd(SubSeq(s, 1, Len(s) - 1))
    ELSE s

\* String.prototype.trim
Trim(s) == TrimEnd(TrimStart(s))

\* .split(/\s+/): the pieces between maximal runs of whitespace; a leading
\* or trailing run leaves an empty piece, and the empty string splits to
\* one empty piece.
IsSpace(c) == c = " "

RECURSIVE SplitWhitespaceFrom(_, _, _)
SplitWhitespaceFrom(s, cur, inSep) ==
    IF s = "" THEN <<cur>>
    ELSE IF IsSpace(Head(s))
         THEN IF inSep
              THEN SplitWhitespaceFrom(Tail(s), cur, TRUE)
              ELSE <<cur>> \o SplitWhitespaceFrom(Tail(s), "", TRUE)
         ELSE SplitWhitespaceFrom(Tail(s), cur \o Head(s), FALSE)

SplitWhitespace(s) == SplitWhitespaceFrom(s, "", FALSE)

\* .filter(Boolean) on a list of strings: the empty string is falsy
FilterBoolean(strs) == SelectSeq(strs, LAMBDA t : t # "")

\* Array.prototype.join
RECURSIVE Join(_, _)
Join(strs, sep) ==
    IF strs = <<>> THEN ""
    ELSE IF Len(strs) = 1 THEN strs[1]
    ELSE strs[1] \o sep \o Join(Tail(strs), sep)

Range(f) == {f[i] : i \in DOMAIN f}

(***************************************************************************)
(* deduplicateFindings                                                     *)
(***************************************************************************)
\* text.toLowerCase().replace(/[^a-z0-9]+/g, ' ').trim().split(/\s+/).filter(Boolean)
NormalizeText(text) ==
    FilterBoolean(SplitWhitespace(Trim(ReplaceNonAlnumRuns(ToLowerCase(text), FALSE))))

\* Bounds of the deduplicator's inputs.
MaxFindings == 3

FindingFiles == {"a.x", "b.x"}
FindingRanges == {<<10, 12>>, <<11, 13>>, <<13, 14>>}
FindingTitles ==
    { "Null check missing",
      "Missing null check",
      "Null check missing right here",
      "check?",
      "?!",
      "..." }

\* The findings the analysis may return: every range and title in a.x, and
\* two findings in b.x that match a.x findings in all but the file.
FindingUniverse ==
    { [file |-> "a.x", startLine |-> r[1], endLine |-> r[2], title |-> t] :
        r \in FindingRanges, t \in FindingTitles \ {"..."} }
    \cup { [file |-> "a.x", startLine |-> 10, endLine |-> 12, title |-> "..."] }
    \cup { [file |-> "b.x", startLine |-> 10, endLine |-> 12, title |-> t] :
             t \in {"Null check missing", "?!"} }

\* normalizeTitleTokens, evaluated once per title of the universe.
TitleTokens == [t \in FindingTitles |-> NormalizeText(t)]

normalizeTitleTokens(text) == TitleTokens[text]

\* The similarity is a quotient of two small integers; it is kept as the
\* pair <<numerator, denominator>> and compared by cross-multiplication.
titleSimilarity(a, b) ==
    IF Len(a) = 0 \/ Len(b) = 0 THEN <<0, 1>>
    ELSE LET aSet == Range(a)
             bSet == Range(b)
             intersection == Cardinality({t \in aSet : t \in bSet})
             union == Cardinality(aSet) + Cardinality(bSet) - intersection
         IN  IF union = 0 THEN <<0, 1>> ELSE <<intersection, union>>

\* the threshold literal 0.6, as 6/10
ThresholdNum == 6
ThresholdDen == 10

\* mutation: the comparison with the threshold made strict
AboveThreshold(q) == q[1] * ThresholdDen > ThresholdNum * q[2]

\* similarity >= 0.6
AtLeastThreshold(q) == q[1] * ThresholdDen >= ThresholdNum * q[2]

rangesOverlap(aStart, aEnd, bStart, bEnd) ==
    aStart <= bEnd /\ aEnd >= bStart

\* `${f.file}:${f.startLine}:${f.endLine}:${normalizedTitle}`
FindingKey(f) ==
    f.file \o ":" \o ToString(f.startLine) \o ":" \o ToString(f.endLine)
           \o ":" \o Join(normalizeTitleTokens(f.title), " ")

\* mutation: the callback without its test of the file
NearMatchAnyFile(r, f) ==
    /\ rangesOverlap(r.startLine, r.endLine, f.startLine, f.endLine)
    /\ AtLeastThreshold(titleSimilarity(normalizeTitleTokens(r.title),
                                        normalizeTitleTokens(f.title)))

\* the callback of result.some(...)
NearMatch(r, f) ==
    /\ r.file = f.file
    /\ rangesOverlap(r.startLine, r.endLine, f.startLine, f.endLine)
    /\ AtLeastThreshold(titleSimilarity(normalizeTitleTokens(r.title),
                                        normalizeTitleTokens(f.title)))

hasNearDuplicate(result, f) ==
    \E k \in 1..Len(result) : NearMatch(result[k], f)

FindingLists ==
    UNION { [1..n -> FindingUniverse] : n \in 0..MaxFindings }

\* Every finding carries the unique id nextFindingId() gave it.
WithIds(fs) ==
    [k \in 1..Len(fs) |->
        [id |-> k, file |-> fs[k].file, startLine |-> fs[k].startLine,
         endLine |-> fs[k].endLine, title |-> fs[k].title]]

notDedup == <<chunker, parser, builder, sorter, review, finder, store, sender, extension>>
notParser == <<dedup, chunker, builder, sorter, review, finder, store, sender, extension>>
notBuilder == <<dedup, chunker, parser, sorter, review, finder, store, sender, extension>>
notChunker == <<dedup, parser, builder, sorter, review, finder, store, sender, extension>>
notSorter == <<dedup, chunker, parser, builder, review, finder, store, sender, extension>>
notReview == <<dedup, chunker, parser, builder, sorter, finder, store, sender, extension>>
notFinder == <<dedup, chunker, parser, builder, sorter, review, store, sender, extension>>
notStore == <<dedup, chunker, parser, builder, sorter, review, finder, sender, extension>>
notSender == <<dedup, chunker, parser, builder, sorter, review, finder, store, extension>>
notExtension == <<dedup, chunker, parser, builder, sorter, review, finder, store, sender>>

DedupCall(findings, pass, first) ==
    [pc |-> "loop", findings |-> findings, idx |-> 1,
     seen |-> {}, result |-> <<>>, pass |-> pass, first |-> first]

InitDedup ==
    /\ \E fs \in FindingLists : dedup = DedupCall(WithIds(fs), 1, <<>>)
    /\ chunker = Idle
    /\ parser = Idle
    /\ builder = Idle
    /\ sorter = Idle
    /\ review = Idle
    /\ finder = Idle
    /\ store = Idle
    /\ sender = Idle
    /\ extension = Idle

DedupCurrent == dedup.findings[dedup.idx]

InDedupLoop == dedup.pc = "loop" /\ dedup.idx <= Len(dedup.findings)

\* if (seen.has(key)) { continue; }
DedupSkipSeen ==
    /\ InDedupLoop
    /\ FindingKey(DedupCurrent) \in dedup.seen
    /\ dedup' = [dedup EXCEPT !.idx = @ + 1]
    /\ UNCHANGED notDedup

\* mutation: the near-duplicate replaces the earlier finding it matches
DedupReplaceNear ==
    /\ InDedupLoop
    /\ FindingKey(DedupCurrent) \notin dedup.seen
    /\ hasNearDuplicate(dedup.result, DedupCurrent)
    /\ LET k == CHOOSE k \in 1..Len(dedup.result) :
                    /\ NearMatch(dedup.result[k], DedupCurrent)
                    /\ \A l \in 1..(k - 1) : ~NearMatch(dedup.result[l], DedupCurrent)
       IN  dedup' = [dedup EXCEPT !.idx = @ + 1, !.result[k] = DedupCurrent]
    /\ UNCHANGED notDedup

\* if (hasNearDuplicate) { continue; }
DedupSkipNear ==
    /\ InDedupLoop
    /\ FindingKey(DedupCurrent) \notin dedup.seen
    /\ hasNearDuplicate(dedup.result, DedupCurrent)
    /\ dedup' = [dedup EXCEPT !.idx = @ + 1]
    /\ UNCHANGED notDedup

\* mutation: result.unshift(f) in place of result.push(f)
DedupKeepInFront ==
    /\ InDedupLoop
    /\ FindingKey(DedupCurrent) \notin dedup.seen
    /\ ~hasNearDuplicate(dedup.result, DedupCurrent)
    /\ dedup' = [dedup EXCEPT !.idx = @ + 1,
                              !.seen = @ \cup {FindingKey(DedupCurrent)},
                              !.result = <<DedupCurrent>> \o @]
    /\ UNCHANGED notDedup

\* seen.add(key); result.push(f);
DedupKeep ==
    /\ InDedupLoop
    /\ FindingKey(DedupCurrent) \notin dedup.seen
    /\ ~hasNearDuplicate(dedup.result, DedupCurrent)
    /\ dedup' = [dedup EXCEPT !.idx = @ + 1,
                              !.seen = @ \cup {FindingKey(DedupCurrent)},
                              !.result = Append(@, DedupCurrent)]
    /\ UNCHANGED notDedup

\* return result;
DedupReturn ==
    /\ dedup.pc = "loop"
    /\ dedup.idx > Len(dedup.findings)
    /\ dedup' = [dedup EXCEPT !.pc = "returned"]
    /\ UNCHANGED notDedup

\* The caller hands the list it got back to deduplicateFindings again.
DedupAgain ==
    /\ dedup.pc = "returned"
    /\ dedup.pass = 1
    /\ dedup' = DedupCall(dedup.result, 2, dedup.result)
    /\ UNCHANGED notDedup

NextDedup ==
    \/ DedupSkipSeen
    \/ DedupSkipNear
    \/ DedupKeep
    \/ DedupReturn
    \/ DedupAgain

SpecDedup == InitDedup /\ [][NextDedup]_vars

(***************************************************************************)
(* Properties of deduplicateFindings.  They are stated in the words of the *)
(* specification: the exact key is the tuple (file, startLine, endLine,    *)
(* normalized title) and the similarity is the Jaccard index of the two    *)
(* token sets.                                                             *)
(***************************************************************************)
ExactKey(f) == <<f.file, f.startLine, f.endLine, normalizeTitleTokens(f.title)>>

TokenSet(f) == Range(normalizeTitleTokens(f.title))

\* |A \cap B| / |A \cup B| >= 0.6, and 0 when a set is empty
JaccardAtLeastSixTenths(a, b) ==
    /\ TokenSet(a) # {}
    /\ TokenSet(b) # {}
    /\ 10 * Cardinality(TokenSet(a) \cap TokenSet(b))
          >= 6 * Cardinality(TokenSet(a) \cup TokenSet(b))

LineRangesOverlap(a, b) == a.startLine <= b.endLine /\ a.endLine >= b.startLine

NearDuplicates(a, b) ==
    /\ a.file = b.file
    /\ LineRangesOverlap(a, b)
    /\ JaccardAtLeastSixTenths(a, b)

Duplicates(a, b) == ExactKey(a) = ExactKey(b) \/ NearDuplicates(a, b)

\* the findings the loop has already decided on, and which of them it kept
Processed == SubSeq(dedup.findings, 1, dedup.idx - 1)
Kept(f) == \E k \in 1..Len(dedup.result) : dedup.result[k] = f

RECURSIVE IsSubsequence(_, _)
IsSubsequence(s, t) ==
    IF s = <<>> THEN TRUE
    ELSE IF t = <<>> THEN FALSE
    ELSE IF Head(s) = Head(t) THEN IsSubsequence(Tail(s), Tail(t))
    ELSE IsSubsequence(s, Tail(t))

SpecExampleA == [file |-> "a.x", startLine |-> 10, endLine |-> 12, title |-> "Null check missing"]
SpecExampleB == [file |-> "a.x", startLine |-> 11, endLine |-> 13, title |-> "Missing null check"]
SpecExampleOtherFile == [file |-> "b.x", startLine |-> 10, endLine |-> 12, title |-> "Null check missing"]

\* C2: deduplicateFindings is idempotent: applied to its own output it
\* returns that output, the same findings in the same order.
C2_DedupIdempotent ==
    (dedup.pc = "returned" /\ dedup.pass = 2) => dedup.result = dedup.first

\* a second pass that had an overlapping same-file pair to compare and a
\* title without tokens to key
C2_Witness ==
    /\ dedup.pc = "returned"
    /\ dedup.pass = 2
    /\ Len(dedup.first) = 3
    /\ \E k, l \in 1..3 :
          /\ k < l
          /\ dedup.first[k].file = dedup.first[l].file
          /\ LineRangesOverlap(dedup.first[k], dedup.first[l])
          /\ TokenSet(dedup.first[k]) \cap TokenSet(dedup.first[l]) # {}

\* C3: the output holds no two findings with the same exact key and no two
\* findings of one file with overlapping ranges and title similarity >= 0.6;
\* the specification's example pair (10-12 and 11-13, same words in another
\* order) collapses to one.
C3_NoDuplicatesInOutput ==
    /\ dedup.pc \in {"loop", "returned"} =>
          \A k, l \in 1..Len(dedup.result) :
              k # l => ~Duplicates(dedup.result[k], dedup.result[l])
    /\ (/\ dedup.pc = "returned"
        /\ dedup.findings \in {WithIds(<<SpecExampleA, SpecExampleB>>),
                                WithIds(<<SpecExampleB, SpecExampleA>>)})
          => Len(dedup.result) = 1

C3_Witness ==
    /\ dedup.pc = "returned"
    /\ dedup.pass = 1
    /\ dedup.findings = WithIds(<<SpecExampleA, SpecExampleB>>)
    /\ dedup.result = <<dedup.findings[1]>>

\* C4: the output is a subsequence of the input (input order, every kept
\* finding an input element with no field changed), the first finding of
\* a non-empty input is kept, and a finding once kept is never displaced
\* by a later duplicate of it: the later one is the one dropped.
C4_OrderPreservingFirstWins ==
    dedup.pc \in {"loop", "returned"} =>
        /\ IsSubsequence(dedup.result, Processed)
        /\ dedup.idx > 1 => (dedup.result # <<>> /\ dedup.result[1] = dedup.findings[1])
        /\ \A i, j \in 1..(dedup.idx - 1) :
              (i < j /\ Duplicates(dedup.findings[i], dedup.findings[j])
                     /\ Kept(dedup.findings[i]))
                 => ~Kept(dedup.findings[j])
        /\ \A j \in 1..(dedup.idx - 1) :
              ~Kept(dedup.findings[j]) =>
                  \E i \in 1..(j - 1) : /\ Kept(dedup.findings[i])
                                         /\ Duplicates(dedup.findings[i], dedup.findings[j])

\* three findings of which the second is dropped for the first, and the
\* third, a duplicate of the dropped one only, is kept
C4_Witness ==
    /\ dedup.pc = "returned"
    /\ dedup.pass = 1
    /\ Len(dedup.findings) = 3
    /\ dedup.result = <<dedup.findings[1], dedup.findings[3]>>
    /\ Duplicates(dedup.findings[2], dedup.findings[3])

\* C5: a finding is dropped only when an earlier kept finding has the same
\* file and either the same exact key or an overlapping range with title
\* similarity >= 0.6; findings of different files are never collapsed, and
\* an input without such a pair is returned unchanged.
C5_DropsOnlyDuplicates ==
    dedup.pc \in {"loop", "returned"} =>
        /\ \A j \in 1..(dedup.idx - 1) :
              ~Kept(dedup.findings[j]) =>
                  \E k \in 1..Len(dedup.result) :
                      /\ dedup.result[k].id < dedup.findings[j].id
                      /\ dedup.result[k].file = dedup.findings[j].file
                      /\ \/ ExactKey(dedup.result[k]) = ExactKey(dedup.findings[j])
                         \/ /\ LineRangesOverlap(dedup.result[k], dedup.findings[j])
                            /\ JaccardAtLeastSixTenths(dedup.result[k], dedup.findings[j])
        /\ \A j \in 1..(dedup.idx - 1) :
              (\A i \in 1..(j - 1) : dedup.findings[i].file # dedup.findings[j].file)
                 => Kept(dedup.findings[j])
        /\ (/\ dedup.pc = "returned"
            /\ \A i, j \in 1..Len(dedup.findings) :
                  i < j => ~(/\ dedup.findings[i].file = dedup.findings[j].file
                             /\ Duplicates(dedup.findings[i], dedup.findings[j])))
              => dedup.result = dedup.findings

\* the specification's example: same range and title in a.x and in b.x,
\* both kept
C5_Witness ==
    /\ dedup.pc = "returned"
    /\ dedup.pass = 1
    /\ dedup.findings = WithIds(<<SpecExampleA, SpecExampleOtherFile>>)
    /\ dedup.result = dedup.findings

(***************************************************************************)
(* GitDiffEngine.parseDiff, for one per-file segment of the diff text: the *)
(* segment is the list fileDiff.split('\n'), its first line the rest of    *)
(* the "diff --git " line.                                                 *)
(***************************************************************************)
Substring(s, from, to) ==
    IF from > to \/ from > Len(s) THEN ""
    ELSE SubSeq(s, from, IF to > Len(s) THEN Len(s) ELSE to)

\* String.prototype.includes
Includes(s, sub) ==
    \E i \in 1..(Len(s) - Len(sub) + 1) : SubSeq(s, i, i + Len(sub) - 1) = sub

\* the first position >= from at which sub occurs in s, or 0
IndexOf(s, sub, from) ==
    LET hits == {i \in from..(Len(s) - Len(sub) + 1) : SubSeq(s, i, i + Len(sub) - 1) = sub}
    IN  IF hits = {} THEN 0 ELSE CHOOSE i \in hits : \A k \in hits : i <= k

\* headerLine.match(/a\/(.*?) b\/(.*)/): <<>> for null, else <<match[2]>>.
\* The pattern is not anchored: it matches from the leftmost "a/" that has
\* a " b/" after it, the lazy group ends at the first such " b/", and the
\* second group is the rest of the line.
MatchHeaderLine(headerLine) ==
    LET a == IndexOf(headerLine, "a/", 1)
        b == IF a = 0 THEN 0 ELSE IndexOf(headerLine, " b/", a + 2)
    IN  IF b = 0 THEN <<>> ELSE <<Substring(headerLine, b + 3, Len(headerLine))>>

\* the length of the run of decimal digits of s that starts at position p
RECURSIVE DigitRun(_, _)
DigitRun(s, p) ==
    IF p <= Len(s) /\ CharIn(CharAt(s, p), DecimalDigits)
    THEN 1 + DigitRun(s, p + 1)
    ELSE 0

DigitValue(c) == (CHOOSE i \in 1..Len(DecimalDigits) : CharAt(DecimalDigits, i) = c) - 1

\* parseInt(digits, 10) of a string of decimal digits
RECURSIVE ParseInt(_)
ParseInt(digits) ==
    IF digits = "" THEN 0
    ELSE 10 * ParseInt(SubSeq(digits, 1, Len(digits) - 1))
           + DigitValue(CharAt(digits, Len(digits)))

\* (\d+)(?:,(\d+))? matched at position p of s; len is "" when the
\* optional group did not take part, next is the position after the match
MatchStartAndLength(s, p) ==
    LET n1 == DigitRun(s, p)
        q == p + n1
        n2 == IF n1 > 0 /\ CharAt(s, q) = "," THEN DigitRun(s, q + 1) ELSE 0
    IN  [ok |-> n1 > 0,
         start |-> Substring(s, p, q - 1),
         len |-> Substring(s, q + 1, q + n2),
         next |-> IF n2 > 0 THEN q + 1 + n2 ELSE q]

\* line.match(/^@@ -(\d+)(?:,(\d+))? \+(\d+)(?:,(\d+))? @@(.*)/): <<>> for
\* null, else the five groups (an absent optional group is "")
MatchHunkHeader(line) ==
    IF ~StartsWith(line, "@@ -") THEN <<>>
    ELSE LET old == MatchStartAndLength(line, 5)
         IN  IF ~old.ok \/ Substring(line, old.next, old.next + 1) # " +" THEN <<>>
             ELSE LET new == MatchStartAndLength(line, old.next + 2)
                  IN  IF ~new.ok \/ Substring(line, new.next, new.next + 2) # " @@"
                      THEN <<>>
                      ELSE << [g1 |-> old.start, g2 |-> old.len,
                               g3 |-> new.start, g4 |-> new.len,
                               g5 |-> Substring(line, new.next + 3, Len(line))] >>

\* line.startsWith('index ') || line.startsWith('--- ') || ...
IsMetadataLine(line) ==
    \/ StartsWith(line, "index ")
    \/ StartsWith(line, "--- ")
    \/ StartsWith(line, "+++ ")
    \/ StartsWith(line, "old mode")
    \/ StartsWith(line, "new mode")
    \/ StartsWith(line, "new file")
    \/ StartsWith(line, "deleted file")

\* Bounds of the parser's input: a segment has a header line and at most
\* MaxDiffLines further lines.
MaxDiffLines == 4

HeaderLines == {"a/f.x b/f.x", "i/f.x w/f.x"}

\* Segments that follow the first one: a segment whose header line does
\* not have the a/... b/... form, and the segment of another file.
UnmatchedSegment == [lines |-> <<"i/f.x w/f.x", "+a">>, excluded |-> FALSE]

OtherFileSegment == [lines |-> <<"a/g.x b/g.x", "@@ -5 +7 @@", "+a">>, excluded |-> FALSE]

NoNewlineMarker == "\\ No newline at end of file"

DiffLines ==
    { "@@ -1,2 +1,2 @@ f()",
      "@@ -5 +7 @@",
      "+a",
      "-b",
      " c",
      NoNewlineMarker,
      "+++ x",
      "Binary files a/f.x and b/f.x differ" }

\* What the code asks of a line, evaluated once per line of the universe.
LineFacts ==
    [l \in DiffLines \cup HeaderLines \cup {OtherFileSegment.lines[1]} |->
        [hunkMatch |-> MatchHunkHeader(l),
         metadata |-> IsMetadataLine(l),
         atat |-> StartsWith(l, "@@"),
         diffGit |-> StartsWith(l, "diff --git"),
         plus |-> StartsWith(l, "+"),
         minus |-> StartsWith(l, "-"),
         newFile |-> Includes(l, "new file mode"),
         deletedFile |-> Includes(l, "deleted file mode"),
         binary |-> Includes(l, "Binary files")]]

SegmentIncludes(lines, fact) == \E k \in 1..Len(lines) : LineFacts[lines[k]][fact]

\* mutation: a line that looks like a file banner (+++ ) is not counted
StartsWithPlusNotBanner(dl) == LineFacts[dl].plus /\ ~LineFacts[dl].metadata

\* dl.startsWith('+')
StartsWithPlus(dl) == LineFacts[dl].plus

\* dl.startsWith('-')
StartsWithMinus(dl) == LineFacts[dl].minus

\* dl.startsWith('@@') || dl.startsWith('diff --git')
EndsHunkBody(dl) == LineFacts[dl].atat \/ LineFacts[dl].diffGit

\* "Track added/removed line numbers": the inner loop over lines[j..],
\* with the cursor newLineNum and the two lists it fills
RECURSIVE TrackLineNumbers(_, _, _, _, _)
TrackLineNumbers(lines, j, newLineNum, addedLines, removedLines) ==
    IF j > Len(lines) \/ EndsHunkBody(lines[j])
    THEN [addedLines |-> addedLines, removedLines |-> removedLines]
    ELSE IF StartsWithPlus(lines[j])
         THEN TrackLineNumbers(lines, j + 1, newLineNum + 1,
                               Append(addedLines, newLineNum), removedLines)
         ELSE IF StartsWithMinus(lines[j])
              THEN TrackLineNumbers(lines, j + 1, newLineNum,
                                    addedLines, Append(removedLines, newLineNum))
              ELSE TrackLineNumbers(lines, j + 1, newLineNum + 1,
                                    addedLines, removedLines)

\* parseInt(hunkMatch[n] || '1', 10)
LengthOrOne(group) == ParseInt(IF group = "" THEN "1" ELSE group)

\* the DiffHunk a hunk header line at lines[i] starts
NewHunk(filePath, lines, i) ==
    LET m == LineFacts[lines[i]].hunkMatch[1]
        newStart == ParseInt(m.g3)
        tracked == TrackLineNumbers(lines, i + 1, newStart, <<>>, <<>>)
    IN  [file |-> filePath,
         oldStart |-> ParseInt(m.g1),
         oldLines |-> LengthOrOne(m.g2),
         newStart |-> newStart,
         newLines |-> LengthOrOne(m.g4),
         header |-> Trim(m.g5),
         content |-> "",
         addedLines |-> tracked.addedLines,
         removedLines |-> tracked.removedLines]

\* currentHunk.content = lineContent.join('\n'); hunks.push(currentHunk);
SaveHunk(hunks, currentHunk, lineContent) ==
    IF currentHunk = <<>> THEN hunks
    ELSE Append(hunks, [currentHunk[1] EXCEPT !.content = Join(lineContent, "\n")])

SegmentPath == MatchHeaderLine(parser.lines[1])[1]

\* excluded stands for excludePaths.some(pattern => minimatch(filePath, pattern))
\* the lines of a sequence of segments after their header lines
RECURSIVE BodyLines(_)
BodyLines(segments) ==
    IF segments = <<>> THEN 0
    ELSE Len(Head(segments).lines) - 1 + BodyLines(Tail(segments))

\* the sequences of following segments that have at most n body lines
Followings(n) ==
    {following \in UNION {[1..k -> {UnmatchedSegment, OtherFileSegment}] : k \in 0..n} :
        BodyLines(following) <= n}

\* const fileDiffs = rawDiff.split(/^diff --git /m).filter(Boolean); the
\* diff has at most MaxDiffLines lines that are no header lines.
InitParse ==
    /\ \E h \in HeaderLines, n \in 0..MaxDiffLines, excluded \in BOOLEAN :
         \E body \in [1..n -> DiffLines], following \in Followings(MaxDiffLines - n) :
            parser = [pc |-> "segment",
                      segments |-> <<[lines |-> <<h>> \o body, excluded |-> excluded]>>
                                      \o following,
                      s |-> 1,
                      lines |-> <<h>> \o body, excluded |-> excluded,
                      i |-> 2, hunks |-> <<>>, currentHunk |-> <<>>,
                      lineContent |-> <<>>, files |-> <<>>]
    /\ dedup = Idle
    /\ chunker = Idle
    /\ builder = Idle
    /\ sorter = Idle
    /\ review = Idle
    /\ finder = Idle
    /\ store = Idle
    /\ sender = Idle
    /\ extension = Idle

\* mutation: a header line that does not match ends the parse
ParseSkipUnmatchedEndsParse ==
    /\ parser.pc = "segment"
    /\ MatchHeaderLine(parser.lines[1]) = <<>>
    /\ parser' = [parser EXCEPT !.pc = "done", !.s = Len(parser.segments)]
    /\ UNCHANGED notParser

\* if (!match) { continue; }
ParseSkipUnmatched ==
    /\ parser.pc = "segment"
    /\ MatchHeaderLine(parser.lines[1]) = <<>>
    /\ parser' = [parser EXCEPT !.pc = "done"]
    /\ UNCHANGED notParser

\* if (excludePaths.some(...)) { continue; }
ParseSkipExcluded ==
    /\ parser.pc = "segment"
    /\ MatchHeaderLine(parser.lines[1]) # <<>>
    /\ parser.excluded
    /\ parser' = [parser EXCEPT !.pc = "done"]
    /\ UNCHANGED notParser

\* if (isBinary) { files.push({ ..., hunks: [], isBinary: true }); continue; }
ParseBinary ==
    /\ parser.pc = "segment"
    /\ MatchHeaderLine(parser.lines[1]) # <<>>
    /\ ~parser.excluded
    /\ SegmentIncludes(parser.lines, "binary")
    /\ parser' = [parser EXCEPT
         !.pc = "done",
         !.files = Append(@, [path |-> SegmentPath, hunks |-> <<>>,
                              isNew |-> SegmentIncludes(parser.lines, "newFile"),
                              isDeleted |-> SegmentIncludes(parser.lines, "deletedFile"),
                              isBinary |-> TRUE])]
    /\ UNCHANGED notParser

\* const hunks = []; let currentHunk = null; let lineContent = [];
ParseBeginHunks ==
    /\ parser.pc = "segment"
    /\ MatchHeaderLine(parser.lines[1]) # <<>>
    /\ ~parser.excluded
    /\ ~SegmentIncludes(parser.lines, "binary")
    /\ parser' = [parser EXCEPT !.pc = "lines", !.i = 2, !.hunks = <<>>,
                                !.currentHunk = <<>>, !.lineContent = <<>>]
    /\ UNCHANGED notParser

InLineLoop == parser.pc = "lines" /\ parser.i <= Len(parser.lines)

CurrentLine == parser.lines[parser.i]

\* if (hunkMatch) { save the previous hunk; start a hunk; track its lines }
ParseHunkHeader ==
    /\ InLineLoop
    /\ LineFacts[CurrentLine].hunkMatch # <<>>
    /\ parser' = [parser EXCEPT
         !.hunks = SaveHunk(@, parser.currentHunk, parser.lineContent),
         !.currentHunk = <<NewHunk(SegmentPath, parser.lines, parser.i)>>,
         !.lineContent = <<CurrentLine>>,
         !.i = @ + 1]
    /\ UNCHANGED notParser

\* "Skip diff metadata lines (index, ---, +++)"
ParseSkipMetadata ==
    /\ InLineLoop
    /\ LineFacts[CurrentLine].hunkMatch = <<>>
    /\ LineFacts[CurrentLine].metadata
    /\ parser' = [parser EXCEPT !.i = @ + 1]
    /\ UNCHANGED notParser

\* if (currentHunk) { lineContent.push(line); }
ParseContentLine ==
    /\ InLineLoop
    /\ LineFacts[CurrentLine].hunkMatch = <<>>
    /\ ~LineFacts[CurrentLine].metadata
    /\ parser.currentHunk # <<>>
    /\ parser' = [parser EXCEPT !.lineContent = Append(@, CurrentLine), !.i = @ + 1]
    /\ UNCHANGED notParser

\* a line before the first hunk header that is no metadata line
ParseLineOutsideHunk ==
    /\ InLineLoop
    /\ LineFacts[CurrentLine].hunkMatch = <<>>
    /\ ~LineFacts[CurrentLine].metadata
    /\ parser.currentHunk = <<>>
    /\ parser' = [parser EXCEPT !.i = @ + 1]
    /\ UNCHANGED notParser

\* "Save last hunk"; files.push({ path, hunks, isNew, isDeleted, isBinary: false })
ParseEndOfSegment ==
    /\ parser.pc = "lines"
    /\ parser.i > Len(parser.lines)
    /\ parser' = [parser EXCEPT
         !.pc = "done",
         !.hunks = SaveHunk(@, parser.currentHunk, parser.lineContent),
         !.files = Append(@, [path |-> SegmentPath,
                              hunks |-> SaveHunk(parser.hunks, parser.currentHunk,
                                                 parser.lineContent),
                              isNew |-> SegmentIncludes(parser.lines, "newFile"),
                              isDeleted |-> SegmentIncludes(parser.lines, "deletedFile"),
                              isBinary |-> FALSE])]
    /\ UNCHANGED notParser

\* for (const fileDiff of fileDiffs) { const lines = fileDiff.split('\n'); ... }
ParseNextSegment ==
    /\ parser.pc = "done"
    /\ parser.s < Len(parser.segments)
    /\ parser' = [parser EXCEPT
         !.pc = "segment",
         !.s = @ + 1,
         !.lines = parser.segments[parser.s + 1].lines,
         !.excluded = parser.segments[parser.s + 1].excluded]
    /\ UNCHANGED notParser

NextParse ==
    \/ ParseNextSegment
    \/ ParseSkipUnmatched
    \/ ParseSkipExcluded
    \/ ParseBinary
    \/ ParseBeginHunks
    \/ ParseHunkHeader
    \/ ParseSkipMetadata
    \/ ParseContentLine
    \/ ParseLineOutsideHunk
    \/ ParseEndOfSegment

SpecParse == InitParse /\ [][NextParse]_vars

(***************************************************************************)
(* Properties of parseDiff.  A hunk of the diff text is a hunk header line *)
(* and its body, the lines after it up to the next hunk header line or the *)
(* end of the segment; what a header declares is written down here,        *)
(* independently of the parser's own reading of it.                        *)
(***************************************************************************)
DeclaredByHeader ==
    ("@@ -1,2 +1,2 @@ f()" :>
        [oldStart |-> 1, oldLines |-> 2, newStart |-> 1, newLines |-> 2, hasLengths |-> TRUE])
    @@ ("@@ -5 +7 @@" :>
        [oldStart |-> 5, oldLines |-> 1, newStart |-> 7, newLines |-> 1, hasLengths |-> FALSE])

FirstCharacter == [l \in DiffLines |-> Substring(l, 1, 1)]

IsAdditionLine(l) == FirstCharacter[l] = "+"
IsRemovalLine(l) == FirstCharacter[l] = "-"
IsContextLine(l) == FirstCharacter[l] = " "
IsMarkerLine(l) == l = NoNewlineMarker

HeaderPositions == {q \in 2..Len(parser.lines) : parser.lines[q] \in DOMAIN DeclaredByHeader}

\* the position of the k-th hunk header line of the segment
HeaderPosition(k) ==
    CHOOSE q \in HeaderPositions : Cardinality({r \in HeaderPositions : r < q}) = k - 1

\* the body of the k-th hunk
HunkBody(k) ==
    LET q == HeaderPosition(k)
        later == {r \in HeaderPositions : r > q}
        last == IF later = {} THEN Len(parser.lines)
                ELSE (CHOOSE r \in later : \A t \in later : r <= t) - 1
    IN  SubSeq(parser.lines, q + 1, last)

Declared(k) == DeclaredByHeader[parser.lines[HeaderPosition(k)]]

CountLines(body, Test(_)) == Cardinality({j \in 1..Len(body) : Test(body[j])})

\* The marker follows the last line of the old file or of the new file: it
\* ends the body, or it follows a removal that is the body's last line of
\* the old file.
MarkerInPlace(body, j) ==
    /\ j > 1
    /\ \/ j = Len(body)
       \/ /\ IsRemovalLine(body[j - 1])
          /\ \A i \in (j + 1)..Len(body) :
                ~IsRemovalLine(body[i]) /\ ~IsContextLine(body[i])

\* a body of addition, removal, context and marker lines whose addition
\* and context lines are as many as the header's new-file length
WellFormedHunk(k) ==
    LET body == HunkBody(k)
    IN  /\ \A j \in 1..Len(body) :
              \/ IsAdditionLine(body[j])
              \/ IsRemovalLine(body[j])
              \/ IsContextLine(body[j])
              \/ IsMarkerLine(body[j]) /\ MarkerInPlace(body, j)
        /\ CountLines(body, IsAdditionLine) + CountLines(body, IsContextLine)
              = Declared(k).newLines

StrictlyIncreasing(ns) == \A a, b \in 1..Len(ns) : a < b => ns[a] < ns[b]

\* a segment gets a record when its header line matches and its path is
\* not excluded
IsKept(segment) == MatchHeaderLine(segment.lines[1]) # <<>> /\ ~segment.excluded

\* the number of records of the first n segments
KeptUpTo(n) == Cardinality({p \in 1..n : IsKept(parser.segments[p])})

\* the record of the segment just finished: <<>> when it has none
SegmentRecord ==
    IF IsKept(parser.segments[parser.s]) /\ Len(parser.files) = KeptUpTo(parser.s)
    THEN <<parser.files[Len(parser.files)]>>
    ELSE <<>>

\* the hunks parseDiff returned for the segment, once the segment is done
ParsedHunks == IF SegmentRecord = <<>> THEN <<>> ELSE SegmentRecord[1].hunks

\* C6: in every hunk with a well-formed body, addedLines is strictly
\* increasing and lies within [newStart, newStart + newLines).
C6_AddedLinesWithinHunk ==
    parser.pc = "done" =>
        \A k \in 1..Len(ParsedHunks) :
            WellFormedHunk(k) =>
                /\ StrictlyIncreasing(ParsedHunks[k].addedLines)
                /\ \A n \in Range(ParsedHunks[k].addedLines) :
                      /\ Declared(k).newStart <= n
                      /\ n < Declared(k).newStart + Declared(k).newLines

\* C7: a hunk has as many addedLines entries as its body has '+'-prefixed
\* lines; when the body starts with an addition the first entry is the
\* header's newStart; a header without ",len" gets the length 1.
C7_AddedLinesCountAndStart ==
    parser.pc = "done" =>
        /\ (SegmentRecord # <<>> /\ ~SegmentRecord[1].isBinary)
              => Len(ParsedHunks) = Cardinality(HeaderPositions)
        /\ \A k \in 1..Len(ParsedHunks) :
              /\ Len(ParsedHunks[k].addedLines) = CountLines(HunkBody(k), IsAdditionLine)
              /\ (HunkBody(k) # <<>> /\ IsAdditionLine(HunkBody(k)[1]))
                    => ParsedHunks[k].addedLines[1] = Declared(k).newStart
              /\ ~Declared(k).hasLengths
                    => ParsedHunks[k].newLines = 1 /\ ParsedHunks[k].oldLines = 1

\* two hunks whose bodies start with an addition; the second's header has
\* no lengths
C7_Witness ==
    /\ parser.pc = "done"
    /\ Len(ParsedHunks) = 2
    /\ ParsedHunks[1].addedLines = <<1>>
    /\ ~Declared(2).hasLengths
    /\ ParsedHunks[2].addedLines = <<7>>

\* C8: every removedLines entry is the removed line's number in the old
\* file: oldStart plus the number of context and removal lines before it
\* in the hunk body.
C8_RemovedLinesInOldNumbering ==
    parser.pc = "done" =>
        \A k \in 1..Len(ParsedHunks) :
            LET body == HunkBody(k)
                removals == {j \in 1..Len(body) : IsRemovalLine(body[j])}
                OldNumber(j) ==
                    Declared(k).oldStart
                      + Cardinality({i \in 1..(j - 1) :
                                        IsContextLine(body[i]) \/ IsRemovalLine(body[i])})
            IN  /\ Len(ParsedHunks[k].removedLines) = Cardinality(removals)
                /\ \A j \in removals :
                      ParsedHunks[k].removedLines[Cardinality({i \in removals : i <= j})]
                         = OldNumber(j)

\* C9: no returned hunk has zero added and zero removed lines.
C9_NoEmptyHunk ==
    parser.pc = "done" =>
        \A f \in Range(parser.files) :
            \A h \in Range(f.hunks) : h.addedLines # <<>> \/ h.removedLines # <<>>

(***************************************************************************)
(* buildFileContext (chunker.ts)                                           *)
(***************************************************************************)
Max(a, b) == IF a >= b THEN a ELSE b
Min(a, b) == IF a <= b THEN a ELSE b

\* fullContent.split('\n')
RECURSIVE SplitLinesFrom(_, _)
SplitLinesFrom(text, cur) ==
    IF text = "" THEN <<cur>>
    ELSE IF Head(text) = "\n"
         THEN <<cur>> \o SplitLinesFrom(Tail(text), "")
         ELSE SplitLinesFrom(Tail(text), cur \o Head(text))

SplitLines(text) == SplitLinesFrom(text, "")

\* Array.prototype.slice(start, end): a negative index counts from the end
SliceIndex(len, k) == IF k < 0 THEN Max(len + k, 0) ELSE Min(k, len)

Slice(arr, start, end) ==
    LET from == SliceIndex(Len(arr), start)
        to == SliceIndex(Len(arr), end)
    IN  IF from < to THEN SubSeq(arr, from + 1, to) ELSE <<>>

\* The code fence of the rendered block: three grave accents in the source,
\* which a string of this notation cannot hold; same length, other character.
Fence == "~~~"

\* String(n).padStart(width)
RECURSIVE PadStart(_, _)
PadStart(str, width) ==
    IF Len(str) >= width THEN str ELSE PadStart(" " \o str, width)

\* parts.push(`## File: ${file.path}${...}`)
FileTitle(file) ==
    "## File: " \o file.path
        \o (IF file.isNew THEN " (new)" ELSE "")
        \o (IF file.isDeleted THEN " (deleted)" ELSE "")

\* file.fullContent && !file.isDeleted: undefined and '' are falsy
HasFullContent(file) ==
    /\ file.fullContent # <<>>
    /\ file.fullContent[1] # ""
    /\ ~file.isDeleted

\* the context window [start, end) of a hunk, 0-indexed line positions
HunkWindow(hunk, lineCount, contextLines) ==
    [hunk |-> hunk,
     start |-> Max(0, hunk.newStart - 1 - contextLines),
     end |-> Min(lineCount, hunk.newStart - 1 + hunk.newLines + contextLines)]

HunkWindows(file, lineCount, contextLines) ==
    [k \in 1..Len(file.hunks) |-> HunkWindow(file.hunks[k], lineCount, contextLines)]

\* mutation: only the first hunk of a window marks its additions
AddedSetOfFirstHunk(window) == Range(window.hunks[1].addedLines)

\* new Set(window.hunks.flatMap(h => h.addedLines))
AddedSet(window) == UNION {Range(window.hunks[k].addedLines) : k \in 1..Len(window.hunks)}

\* mutation: only overlapping windows are merged, touching ones are not
OverlapsLast(merged, w) ==
    /\ merged # <<>>
    /\ w.start < merged[Len(merged)].end

\* last && w.start <= last.end
TouchesLast(merged, w) ==
    /\ merged # <<>>
    /\ w.start <= merged[Len(merged)].end

\* one turn of "for (const w of hunkWindows)"
MergeWindow(merged, w) ==
    IF TouchesLast(merged, w)
    THEN [merged EXCEPT ![Len(merged)].end = Max(@, w.end),
                        ![Len(merged)].hunks = Append(@, w.hunk)]
    ELSE Append(merged, [start |-> w.start, end |-> w.end, hunks |-> <<w.hunk>>])

RECURSIVE HunkStartList(_)
HunkStartList(hunks) ==
    IF hunks = <<>> THEN <<>>
    ELSE <<"line " \o ToString(hunks[1].newStart)>> \o HunkStartList(Tail(hunks))

HunkHeaderText(window) ==
    IF Len(window.hunks) = 1
    THEN "line " \o ToString(window.hunks[1].newStart) \o " " \o window.hunks[1].header
    ELSE Join(HunkStartList(window.hunks), ", ")

\* `${prefix}${String(lineNum).padStart(5)} | ${line}`
AnnotatedLine(window, idx, line) ==
    LET lineNum == window.start + idx + 1
        prefix == IF lineNum \in AddedSet(window) THEN "+" ELSE " "
    IN  prefix \o PadStart(ToString(lineNum), 5) \o " | " \o line

\* the parts one merged window adds
WindowParts(window, fileLines) ==
    LET contextSlice == Slice(fileLines, window.start, window.end)
    IN  <<"\n### Hunk at " \o HunkHeaderText(window), Fence>>
        \o [k \in 1..Len(contextSlice) |-> AnnotatedLine(window, k - 1, contextSlice[k])]
        \o <<Fence>>

\* the parts one hunk adds when there is no full content
RawHunkParts(hunk) ==
    <<"\n### Diff hunk at line " \o ToString(hunk.newStart), Fence \o "diff", hunk.content, Fence>>

\* Bounds of the inputs of buildFileContext.
MaxHunks == 3
MaxContextLines == 1

\* <<newStart, newLines, addedLines>> of the hunks of a file of six lines;
\* the addition of one hunk is recorded one line late, as parseDiff does
\* after a no-newline marker
HunkShapes ==
    {<<0, 0, <<>> >>, <<1, 1, <<1>> >>, <<1, 3, <<1, 3>> >>, <<3, 1, <<3>> >>,
     <<3, 1, <<4>> >>, <<4, 1, <<4>> >>, <<6, 2, <<6>> >>, <<8, 1, <<8>> >>}

SixLines == "a\nb\nc\nd\ne\nf"

ShapedHunk(shape) ==
    [file |-> "src/foo.ts", oldStart |-> shape[1], oldLines |-> shape[2],
     newStart |-> shape[1], newLines |-> shape[2], header |-> "foo()",
     content |-> "@@", removedLines |-> <<>>,
     addedLines |-> shape[3]]

\* <<fullContent, isDeleted>>: fullContent is <<>> for undefined
ContentCases == {<< <<>>, FALSE >>, << <<SixLines>>, FALSE >>, << <<SixLines>>, TRUE >>}

BuilderFiles ==
    { [path |-> "src/foo.ts", isNew |-> FALSE, isDeleted |-> c[2], isBinary |-> FALSE,
       fullContent |-> c[1], hunks |-> [k \in 1..n |-> ShapedHunk(shapes[k])]] :
        c \in ContentCases, n \in {0}, shapes \in {<<>>} }
    \cup UNION { { [path |-> "src/foo.ts", isNew |-> FALSE, isDeleted |-> c[2],
                    isBinary |-> FALSE, fullContent |-> c[1],
                    hunks |-> [k \in 1..n |-> ShapedHunk(shapes[k])]] :
                     c \in ContentCases, shapes \in [1..n -> HunkShapes] } :
                 n \in 1..MaxHunks }

InitBuild ==
    /\ \E file \in BuilderFiles, contextLines \in 0..MaxContextLines :
         builder = [pc |-> "start", file |-> file, contextLines |-> contextLines,
                    fileLines |-> <<>>, hunkWindows |-> <<>>, merged |-> <<>>,
                    k |-> 1, parts |-> <<>>, out |-> ""]
    /\ dedup = Idle
    /\ chunker = Idle
    /\ parser = Idle
    /\ sorter = Idle
    /\ review = Idle
    /\ finder = Idle
    /\ store = Idle
    /\ sender = Idle
    /\ extension = Idle

\* if (file.fullContent && !file.isDeleted): split the text, compute the
\* window of every hunk
BuildFromFullContent ==
    /\ builder.pc = "start"
    /\ HasFullContent(builder.file)
    /\ LET fileLines == SplitLines(builder.file.fullContent[1])
       IN  builder' = [builder EXCEPT
              !.pc = "merge",
              !.parts = <<FileTitle(builder.file)>>,
              !.fileLines = fileLines,
              !.hunkWindows = HunkWindows(builder.file, Len(fileLines),
                                          builder.contextLines)]
    /\ UNCHANGED notBuilder

\* else: "No full content available - use raw diff"
BuildFromRawDiff ==
    /\ builder.pc = "start"
    /\ ~HasFullContent(builder.file)
    /\ builder' = [builder EXCEPT !.pc = "raw", !.parts = <<FileTitle(builder.file)>>]
    /\ UNCHANGED notBuilder

InMergeLoop == builder.pc = "merge" /\ builder.k <= Len(builder.hunkWindows)

\* last.end = Math.max(last.end, w.end); last.hunks.push(w.hunk);
BuildMergeIntoLast ==
    /\ InMergeLoop
    /\ TouchesLast(builder.merged, builder.hunkWindows[builder.k])
    /\ builder' = [builder EXCEPT
          !.merged = MergeWindow(@, builder.hunkWindows[builder.k]),
          !.k = @ + 1]
    /\ UNCHANGED notBuilder

\* merged.push({ start: w.start, end: w.end, hunks: [w.hunk] });
BuildPushWindow ==
    /\ InMergeLoop
    /\ ~TouchesLast(builder.merged, builder.hunkWindows[builder.k])
    /\ builder' = [builder EXCEPT
          !.merged = MergeWindow(@, builder.hunkWindows[builder.k]),
          !.k = @ + 1]
    /\ UNCHANGED notBuilder

\* the merge loop is over: "for (const window of merged)" starts
BuildMerged ==
    /\ builder.pc = "merge"
    /\ builder.k > Len(builder.hunkWindows)
    /\ builder' = [builder EXCEPT !.pc = "render", !.k = 1]
    /\ UNCHANGED notBuilder

\* one turn of "for (const window of merged)"
BuildRenderWindow ==
    /\ builder.pc = "render"
    /\ builder.k <= Len(builder.merged)
    /\ builder' = [builder EXCEPT
          !.parts = @ \o WindowParts(builder.merged[builder.k], builder.fileLines),
          !.k = @ + 1]
    /\ UNCHANGED notBuilder

\* one turn of "for (const hunk of file.hunks)" of the raw diff branch
BuildRawHunk ==
    /\ builder.pc = "raw"
    /\ builder.k <= Len(builder.file.hunks)
    /\ builder' = [builder EXCEPT
          !.parts = @ \o RawHunkParts(builder.file.hunks[builder.k]),
          !.k = @ + 1]
    /\ UNCHANGED notBuilder

\* return parts.join('\n');
BuildReturn ==
    /\ \/ builder.pc = "render" /\ builder.k > Len(builder.merged)
       \/ builder.pc = "raw" /\ builder.k > Len(builder.file.hunks)
    /\ builder' = [builder EXCEPT !.pc = "done", !.out = Join(builder.parts, "\n")]
    /\ UNCHANGED notBuilder

NextBuild ==
    \/ BuildFromFullContent
    \/ BuildFromRawDiff
    \/ BuildMergeIntoLast
    \/ BuildPushWindow
    \/ BuildMerged
    \/ BuildRenderWindow
    \/ BuildRawHunk
    \/ BuildReturn

SpecBuild == InitBuild /\ [][NextBuild]_vars

\* buildFileContext as the function the chunker calls
RECURSIVE MergeAll(_, _)
MergeAll(merged, windows) ==
    IF windows = <<>> THEN merged
    ELSE MergeAll(MergeWindow(merged, Head(windows)), Tail(windows))

RECURSIVE AllWindowParts(_, _)
AllWindowParts(merged, fileLines) ==
    IF merged = <<>> THEN <<>>
    ELSE WindowParts(Head(merged), fileLines) \o AllWindowParts(Tail(merged), fileLines)

RECURSIVE AllRawHunkParts(_)
AllRawHunkParts(hunks) ==
    IF hunks = <<>> THEN <<>>
    ELSE RawHunkParts(Head(hunks)) \o AllRawHunkParts(Tail(hunks))

buildFileContext(file, contextLines) ==
    IF HasFullContent(file)
    THEN LET fileLines == SplitLines(file.fullContent[1])
             merged == MergeAll(<<>>, HunkWindows(file, Len(fileLines), contextLines))
         IN  Join(<<FileTitle(file)>> \o AllWindowParts(merged, fileLines), "\n")
    ELSE Join(<<FileTitle(file)>> \o AllRawHunkParts(file.hunks), "\n")

\* the function and the stepwise run agree on what is returned
BuildAgree ==
    builder.pc = "done" => builder.out = buildFileContext(builder.file, builder.contextLines)

(***************************************************************************)
(* Properties of the merged context windows                                *)
(***************************************************************************)
\* the merge loop of a file with full content is over
WindowsMerged == builder.pc \in {"render", "done"} /\ HasFullContent(builder.file)

HunksAscending ==
    \A i \in 1..(Len(builder.file.hunks) - 1) :
        builder.file.hunks[i].newStart <= builder.file.hunks[i + 1].newStart

RECURSIVE AllWindowHunks(_)
AllWindowHunks(merged) ==
    IF merged = <<>> THEN <<>>
    ELSE Head(merged).hunks \o AllWindowHunks(Tail(merged))

\* the merged window the i-th hunk of the file is in: windows take the
\* hunks in file order
RECURSIVE WindowOfFrom(_, _, _)
WindowOfFrom(merged, m, i) ==
    IF i <= Len(merged[m].hunks) THEN m
    ELSE WindowOfFrom(merged, m + 1, i - Len(merged[m].hunks))

WindowOf(i) == WindowOfFrom(builder.merged, 1, i)

\* the candidate windows of hunks i < j overlap or touch
CandidatesTouch(i, j) == builder.hunkWindows[j].start <= builder.hunkWindows[i].end

\* the candidate window of hunk i neither overlaps nor touches another one
StandsApart(i) ==
    /\ \A j \in 1..(i - 1) : ~CandidatesTouch(j, i)
    /\ \A j \in (i + 1)..Len(builder.hunkWindows) : ~CandidatesTouch(i, j)

\* C10: for a file with full text and hunks in ascending position, each
\* merged window starts strictly after the previous one ends; two hunks
\* whose candidate windows overlap or touch are in one merged window; a hunk
\* whose candidate window is apart from every other one is alone in its
\* merged window.
C10_MergedWindowsDisjoint ==
    (WindowsMerged /\ HunksAscending) =>
        /\ AllWindowHunks(builder.merged) = builder.file.hunks
        /\ \A m \in 1..(Len(builder.merged) - 1) :
              builder.merged[m + 1].start > builder.merged[m].end
        /\ \A i, j \in 1..Len(builder.hunkWindows) :
              (i < j /\ CandidatesTouch(i, j)) => WindowOf(i) = WindowOf(j)
        /\ \A i \in 1..Len(builder.hunkWindows) :
              StandsApart(i) =>
                  builder.merged[WindowOf(i)].hunks = <<builder.file.hunks[i]>>

\* three ascending hunks: the windows of the first two touch without
\* overlapping and are merged, the third is far away and stays alone
C10_Witness ==
    /\ builder.pc = "done"
    /\ HunksAscending
    /\ Len(builder.hunkWindows) = 3
    /\ builder.hunkWindows[2].start = builder.hunkWindows[1].end
    /\ StandsApart(3)
    /\ Len(builder.merged) = 2
    /\ Len(builder.merged[1].hunks) = 2
    /\ builder.merged[2].start > builder.merged[1].end

(***************************************************************************)
(* chunkDiffFiles (chunker.ts)                                             *)
(***************************************************************************)
\* .replace(/\\/g, '/')
RECURSIVE ReplaceBackslashes(_)
ReplaceBackslashes(s) ==
    IF s = "" THEN ""
    ELSE (IF Head(s) = "\\" THEN "/" ELSE Head(s)) \o ReplaceBackslashes(Tail(s))

\* p.split('/')
RECURSIVE SplitSlashFrom(_, _)
SplitSlashFrom(s, cur) ==
    IF s = "" THEN <<cur>>
    ELSE IF Head(s) = "/"
         THEN <<cur>> \o SplitSlashFrom(Tail(s), "")
         ELSE SplitSlashFrom(Tail(s), cur \o Head(s))

\* segment.split(/[^a-z0-9]+/).filter(Boolean)
SegmentTokens(segment) ==
    FilterBoolean(SplitWhitespace(ReplaceNonAlnumRuns(segment, FALSE)))

RECURSIVE FlatMapTokens(_)
FlatMapTokens(segments) ==
    IF segments = <<>> THEN <<>>
    ELSE SegmentTokens(Head(segments)) \o FlatMapTokens(Tail(segments))

PathTokens(p) == FlatMapTokens(FilterBoolean(SplitSlashFrom(p, "")))

filePriorityOf(filePath) ==
    LET p == ReplaceBackslashes(ToLowerCase(filePath))
        tokens == Range(PathTokens(p))
        hasAnyToken(values) == values \cap tokens # {}
    IN  IF hasAnyToken({"test", "tests", "spec", "specs"}) THEN 5
        ELSE IF hasAnyToken({"controller", "controllers", "auth", "authorization"}) THEN 0
        ELSE IF hasAnyToken({"route", "routes", "config", "configs"}) THEN 1
        ELSE IF hasAnyToken({"model", "models", "service", "services", "job", "jobs"}) THEN 2
        ELSE IF hasAnyToken({"migration", "migrations", "db", "database"}) THEN 3
        ELSE IF \/ hasAnyToken({"view", "views", "template", "templates"})
                \/ Includes(p, ".erb")
                \/ Includes(p, ".html") THEN 4
        ELSE 6

\* Math.ceil(text.length / 3.5)
estimateTokens(text) == (2 * Len(text) + 6) \div 7

\* Bounds of the inputs of chunkDiffFiles.
MaxFiles == 3
MaxFilesPerChunk == 2

\* tokenBudget = 40_000 when the caller passes none
DefaultTokenBudget == 40000

ChangedFile(path, isNew, content, shapes) ==
    [path |-> path, isNew |-> isNew, isDeleted |-> FALSE, isBinary |-> FALSE,
     fullContent |-> content,
     hunks |-> [k \in 1..Len(shapes) |-> [ShapedHunk(shapes[k]) EXCEPT !.file = path]]]

\* The files of a diff: one path per priority class, two of the last class,
\* a binary file and a file whose diff has no hunk (a mode change).
FileCatalogue ==
    { ChangedFile("app/controllers/auth.rb", FALSE, <<SixLines>>, << <<3, 1, <<3>> >> >>),
      ChangedFile("config\\routes.rb", FALSE, <<>>, << <<4, 1, <<4>> >> >>),
      ChangedFile("app/models/user.rb", FALSE, <<SixLines>>, << <<1, 1, <<1>> >>, <<6, 2, <<6>> >> >>),
      ChangedFile("db/migrate/001.rb", TRUE, <<SixLines>>, << <<1, 3, <<1>> >>, <<4, 1, <<4>> >> >>),
      ChangedFile("app/home.html.erb", FALSE, <<>>,
                  << <<1, 1, <<1>> >>, <<3, 1, <<3>> >>, <<6, 2, <<6>> >>, <<8, 1, <<8>> >> >>),
      ChangedFile("spec/auth_spec.rb", TRUE, <<SixLines>>, << <<1, 1, <<1>> >> >>),
      ChangedFile("docs/guide.md", FALSE, <<>>, << <<1, 1, <<1>> >> >>),
      ChangedFile("README.md", FALSE, <<SixLines>>, << <<1, 1, <<1>> >>, <<3, 1, <<3>> >>, <<6, 2, <<6>> >> >>),
      [ChangedFile("logo.png", FALSE, <<>>, <<>>) EXCEPT !.isBinary = TRUE],
      ChangedFile("bin/run", FALSE, <<>>, <<>>) }

Priority == [f \in FileCatalogue |-> filePriorityOf(f.path)]

filePriority(file) == Priority[file]

\* estimateTokens(buildFileContext(file, config)) of the catalogue's files
ContextTokens ==
    [f \in FileCatalogue |->
        [c \in 0..MaxContextLines |-> estimateTokens(buildFileContext(f, c))]]

FileTokens(file, config) == ContextTokens[file][config.contextLines]

TokenBudgets == {30, 48, DefaultTokenBudget}

\* mutation: no file is filtered out
KeepAll(files) == files

\* files.filter(f => f.hunks.length > 0 && !f.isBinary)
Reviewable(files) == SelectSeq(files, LAMBDA f : Len(f.hunks) > 0 /\ ~f.isBinary)

\* mutation: a file goes in front of the files of its own priority
RECURSIVE InsertBeforeEqual(_, _)
InsertBeforeEqual(sorted, file) ==
    IF sorted = <<>> THEN <<file>>
    ELSE IF filePriority(Head(sorted)) < filePriority(file)
         THEN <<Head(sorted)>> \o InsertBeforeEqual(Tail(sorted), file)
         ELSE <<file>> \o sorted

\* [...reviewable].sort((a, b) => filePriority(a.path) - filePriority(b.path)):
\* the sort is stable, a file goes behind the files of its own priority
RECURSIVE InsertByPriority(_, _)
InsertByPriority(sorted, file) ==
    IF sorted = <<>> THEN <<file>>
    ELSE IF filePriority(Head(sorted)) <= filePriority(file)
         THEN <<Head(sorted)>> \o InsertByPriority(Tail(sorted), file)
         ELSE <<file>> \o sorted

RECURSIVE SortByPriority(_)
SortByPriority(files) ==
    IF files = <<>> THEN <<>>
    ELSE InsertByPriority(SortByPriority(SubSeq(files, 1, Len(files) - 1)),
                          files[Len(files)])

\* the file lists of a diff: no path twice
FileLists ==
    UNION { {fs \in [1..n -> FileCatalogue] : \A i, j \in 1..n : fs[i] = fs[j] => i = j} :
            n \in 0..MaxFiles }

InitChunk ==
    /\ \E files \in FileLists, tokenBudget \in TokenBudgets,
          maxFilesPerChunk \in 1..MaxFilesPerChunk :
         chunker = [pc |-> "start", files |-> files, tokenBudget |-> tokenBudget,
                    config |-> [maxFilesPerChunk |-> maxFilesPerChunk,
                                contextLines |-> MaxContextLines],
                    sorted |-> <<>>, i |-> 1, chunks |-> <<>>,
                    currentFiles |-> <<>>, currentTokens |-> 0]
    /\ dedup = Idle
    /\ parser = Idle
    /\ builder = Idle
    /\ sorter = Idle
    /\ review = Idle
    /\ finder = Idle
    /\ store = Idle
    /\ sender = Idle
    /\ extension = Idle

\* filter out the files without hunks and the binary ones, sort by priority
ChunkFilterAndSort ==
    /\ chunker.pc = "start"
    /\ chunker' = [chunker EXCEPT !.pc = "loop",
                                  !.sorted = SortByPriority(Reviewable(chunker.files))]
    /\ UNCHANGED notChunker

InChunkLoop == chunker.pc = "loop" /\ chunker.i <= Len(chunker.sorted)

ChunkFile == chunker.sorted[chunker.i]

ChunkFileTokens == FileTokens(ChunkFile, chunker.config)

\* chunks.push({ files: currentFiles, tokenEstimate: currentTokens }) if
\* currentFiles is not empty
Flushed ==
    IF Len(chunker.currentFiles) > 0
    THEN Append(chunker.chunks, [files |-> chunker.currentFiles,
                                 tokenEstimate |-> chunker.currentTokens])
    ELSE chunker.chunks

\* mutation: the number of files of a chunk is not limited
StartsNewChunkOnBudgetOnly(tokens) ==
    chunker.currentTokens + tokens > chunker.tokenBudget

\* currentTokens + tokens > tokenBudget ||
\* currentFiles.length >= config.maxFilesPerChunk
StartsNewChunk(tokens) ==
    \/ chunker.currentTokens + tokens > chunker.tokenBudget
    \/ Len(chunker.currentFiles) >= chunker.config.maxFilesPerChunk

\* if (tokens > tokenBudget): flush the current chunk, the file gets its own
ChunkOversizedFile ==
    /\ InChunkLoop
    /\ ChunkFileTokens > chunker.tokenBudget
    /\ chunker' = [chunker EXCEPT
          !.chunks = Append(Flushed, [files |-> <<ChunkFile>>,
                                      tokenEstimate |-> ChunkFileTokens]),
          !.currentFiles = <<>>,
          !.currentTokens = 0,
          !.i = @ + 1]
    /\ UNCHANGED notChunker

\* adding the file exceeds the budget or the file count: start a new chunk
ChunkStartNew ==
    /\ InChunkLoop
    /\ ChunkFileTokens <= chunker.tokenBudget
    /\ StartsNewChunk(ChunkFileTokens)
    /\ chunker' = [chunker EXCEPT
          !.chunks = Flushed,
          !.currentFiles = <<ChunkFile>>,
          !.currentTokens = ChunkFileTokens,
          !.i = @ + 1]
    /\ UNCHANGED notChunker

\* currentFiles.push(file); currentTokens += tokens;
ChunkAppend ==
    /\ InChunkLoop
    /\ ChunkFileTokens <= chunker.tokenBudget
    /\ ~StartsNewChunk(ChunkFileTokens)
    /\ chunker' = [chunker EXCEPT
          !.currentFiles = Append(@, ChunkFile),
          !.currentTokens = @ + ChunkFileTokens,
          !.i = @ + 1]
    /\ UNCHANGED notChunker

\* flush the remaining files, return chunks
ChunkReturn ==
    /\ chunker.pc = "loop"
    /\ chunker.i > Len(chunker.sorted)
    /\ chunker' = [chunker EXCEPT !.pc = "done", !.chunks = Flushed]
    /\ UNCHANGED notChunker

NextChunk ==
    \/ ChunkFilterAndSort
    \/ ChunkOversizedFile
    \/ ChunkStartNew
    \/ ChunkAppend
    \/ ChunkReturn

SpecChunk == InitChunk /\ [][NextChunk]_vars

(***************************************************************************)
(* Properties of the chunks                                                *)
(***************************************************************************)
RECURSIVE SumOfSizes(_, _)
SumOfSizes(files, config) ==
    IF files = <<>> THEN 0
    ELSE FileTokens(Head(files), config) + SumOfSizes(Tail(files), config)

\* C1: each returned chunk with more than one file has a sum of member
\* estimated sizes <= tokenBudget and at most maxFilesPerChunk files; a chunk
\* with exactly one file exceeds tokenBudget only if the file's own
\* estimated size exceeds it.
C1_ChunkBudget ==
    chunker.pc = "done" =>
        \A c \in Range(chunker.chunks) :
            /\ Len(c.files) >= 1
            /\ Len(c.files) > 1 =>
                  /\ SumOfSizes(c.files, chunker.config) <= chunker.tokenBudget
                  /\ Len(c.files) <= chunker.config.maxFilesPerChunk
            /\ (Len(c.files) = 1 /\ c.tokenEstimate > chunker.tokenBudget) =>
                  FileTokens(c.files[1], chunker.config) > chunker.tokenBudget
            /\ c.tokenEstimate = SumOfSizes(c.files, chunker.config)

\* three files returned as a chunk of two that fills the budget to the last
\* token and a chunk of one file that alone exceeds the budget
C1_Witness ==
    /\ chunker.pc = "done"
    /\ Len(chunker.chunks) = 2
    /\ Len(chunker.chunks[1].files) = 2
    /\ chunker.chunks[1].tokenEstimate = chunker.tokenBudget
    /\ Len(chunker.chunks[2].files) = 1
    /\ chunker.chunks[2].tokenEstimate > chunker.tokenBudget

(***************************************************************************)
(* Properties of the rendered text                                         *)
(***************************************************************************)
\* buildFileContext returned the text of a file with full content
RenderedFromFullContent == builder.pc = "done" /\ HasFullContent(builder.file)

\* positions in parts of the headings of the rendered blocks
BlockStarts ==
    {p \in 1..Len(builder.parts) : StartsWith(builder.parts[p], "\n### Hunk at ")}

BlockStart(m) ==
    CHOOSE p \in BlockStarts : Cardinality({q \in BlockStarts : q < p}) = m - 1

\* the m-th block: its heading, a fence, the lines, a fence
BlockEnd(m) ==
    IF m = Cardinality(BlockStarts) THEN Len(builder.parts) ELSE BlockStart(m + 1) - 1

\* a rendered line read back: its marker, its printed number, its text
ReadRendered(line) ==
    [marker |-> SubSeq(line, 1, 1),
     number |-> ParseInt(TrimStart(SubSeq(line, 2, 6))),
     text |-> SubSeq(line, 10, Len(line))]

RenderedLines(m) ==
    [k \in 1..(BlockEnd(m) - BlockStart(m) - 2) |->
        ReadRendered(builder.parts[BlockStart(m) + 1 + k])]

HunksAddedLines(hunks) == UNION {Range(hunks[k].addedLines) : k \in 1..Len(hunks)}

\* C11: a line rendered from full text carries '+' if and only if its
\* number is in the addedLines of some hunk of the window that renders it,
\* every other line carries a space, and the printed number is the line's
\* 1-based position in the file.
C11_AddedMarker ==
    RenderedFromFullContent =>
        /\ Cardinality(BlockStarts) = Len(builder.merged)
        /\ \A m \in 1..Len(builder.merged) :
              \A k \in 1..Len(RenderedLines(m)) :
                  LET r == RenderedLines(m)[k]
                  IN  /\ r.marker \in {"+", " "}
                      /\ r.marker = "+" <=>
                            r.number \in HunksAddedLines(builder.merged[m].hunks)
                      /\ r.number \in 1..Len(builder.fileLines)
                      /\ r.text = builder.fileLines[r.number]

\* a window of two hunks rendered with an addition of its second hunk
\* marked and a line of neither hunk unmarked
C11_Witness ==
    /\ RenderedFromFullContent
    /\ Len(builder.merged) >= 1
    /\ Len(builder.merged[1].hunks) = 2
    /\ \E k \in 1..Len(RenderedLines(1)) :
          /\ RenderedLines(1)[k].marker = "+"
          /\ RenderedLines(1)[k].number \in Range(builder.merged[1].hunks[2].addedLines)
          /\ RenderedLines(1)[k].number \notin Range(builder.merged[1].hunks[1].addedLines)
    /\ \E k \in 1..Len(RenderedLines(1)) : RenderedLines(1)[k].marker = " "

\* the candidate windows of a file with full content are computed
WindowsComputed ==
    builder.pc \in {"merge", "render", "done"} /\ HasFullContent(builder.file)

RenderedNumbers(m) == {RenderedLines(m)[k].number : k \in 1..Len(RenderedLines(m))}

\* C12: every candidate window [start, end) is clamped to the file,
\* 0 <= start <= end <= lineCount, and the lines rendered for a window are
\* exactly the file lines start+1..end.
C12_WindowsClamped ==
    /\ WindowsComputed =>
          \A k \in 1..Len(builder.hunkWindows) :
              /\ 0 <= builder.hunkWindows[k].start
              /\ builder.hunkWindows[k].start <= builder.hunkWindows[k].end
              /\ builder.hunkWindows[k].end <= Len(builder.fileLines)
    /\ RenderedFromFullContent =>
          \A m \in 1..Len(builder.merged) :
              RenderedNumbers(m) = (builder.merged[m].start + 1)..builder.merged[m].end

\* the file lines inside the candidate window of the k-th hunk
WindowLines(k) == (builder.hunkWindows[k].start + 1)..builder.hunkWindows[k].end

CoveredLines == UNION {WindowLines(k) : k \in 1..Len(builder.hunkWindows)}

\* how many rendered lines carry the number n
TimesRendered(n) ==
    Cardinality({<<m, k>> \in (1..Len(builder.merged)) \X (1..Len(builder.parts)) :
                    k <= Len(RenderedLines(m)) /\ RenderedLines(m)[k].number = n})

AllRenderedNumbers == UNION {RenderedNumbers(m) : m \in 1..Len(builder.merged)}

\* C13: with full text and hunks in source order, every source line inside
\* some hunk's clamped candidate window is rendered exactly once and no
\* other line is rendered.
C13_EachLineOnce ==
    (RenderedFromFullContent /\ HunksAscending) =>
        /\ AllRenderedNumbers = CoveredLines
        /\ \A n \in AllRenderedNumbers : TimesRendered(n) = 1

\* the files of the returned chunks, in emission order
RECURSIVE AllChunkFiles(_)
AllChunkFiles(chunks) ==
    IF chunks = <<>> THEN <<>>
    ELSE Head(chunks).files \o AllChunkFiles(Tail(chunks))

IsReviewable(f) == Len(f.hunks) > 0 /\ ~f.isBinary

\* the position of a file in the input list (no file is in it twice)
InputPosition(f) == CHOOSE i \in 1..Len(chunker.files) : chunker.files[i] = f

\* C14: the file lists of the returned chunks, concatenated in emission
\* order, are the reviewable files by non-decreasing priority rank, files
\* of equal rank in their original relative order.
C14_ChunksKeepPriorityOrder ==
    chunker.pc = "done" =>
        LET out == AllChunkFiles(chunker.chunks)
        IN  /\ Range(out) = {f \in Range(chunker.files) : IsReviewable(f)}
            /\ \A i, j \in 1..Len(out) :
                  i < j =>
                     /\ filePriority(out[i]) <= filePriority(out[j])
                     /\ filePriority(out[i]) = filePriority(out[j]) =>
                           InputPosition(out[i]) < InputPosition(out[j])

\* three files given in descending rank, two of them of equal rank, come
\* back in two chunks, the equal ones in their input order
C14_Witness ==
    /\ chunker.pc = "done"
    /\ Len(chunker.files) = 3
    /\ Len(AllChunkFiles(chunker.chunks)) = 3
    /\ Len(chunker.chunks) = 2
    /\ filePriority(chunker.files[1]) = filePriority(chunker.files[2])
    /\ filePriority(chunker.files[3]) < filePriority(chunker.files[1])
    /\ AllChunkFiles(chunker.chunks) =
          <<chunker.files[3], chunker.files[1], chunker.files[2]>>

\* the files of the catalogue whose path has a test or spec token
TestFiles ==
    {f \in FileCatalogue :
        Range(PathTokens(ReplaceBackslashes(ToLowerCase(f.path))))
            \cap {"test", "tests", "spec", "specs"} # {}}

\* C15: a file whose path has a test or spec token is reviewed after every
\* file whose path has none: in chunking order no test/spec file precedes a
\* non-test file.
C15_TestsReviewedLast ==
    chunker.pc = "done" =>
        LET out == AllChunkFiles(chunker.chunks)
        IN  \A i, j \in 1..Len(out) :
                (i < j /\ out[i] \in TestFiles) => out[j] \in TestFiles

(***************************************************************************)
(* filePriority under the comparator of the sort (chunker.ts)              *)
(***************************************************************************)
\* Paths with a keyword as a whole token, inside a longer token, in upper
\* case, behind a backslash, and with the extensions the last rule names.
PriorityPaths ==
    {"app/controllers/auth.rb", "src/router.ts", "author/list.ts",
     "config/routes.rb", "latest/contest.ts", "spec/auth_spec.rb",
     "Auth\\Test.ts", "models\\User.ts", "db/migrate.sql", "views/home.haml",
     "x.html", "html/x", "lib/x.erb", "erb/lib/x", "README.md"}

PathPriority == [p \in PriorityPaths |-> filePriorityOf(p)]

InitRank ==
    /\ \E a, b \in PriorityPaths : sorter = [pc |-> "start", a |-> a, b |-> b, result |-> 0]
    /\ dedup = Idle
    /\ chunker = Idle
    /\ parser = Idle
    /\ builder = Idle
    /\ review = Idle
    /\ finder = Idle
    /\ store = Idle
    /\ sender = Idle
    /\ extension = Idle

\* (a, b) => filePriority(a.path) - filePriority(b.path)
RankCompare ==
    /\ sorter.pc = "start"
    /\ sorter' = [sorter EXCEPT !.pc = "done",
                                !.result = PathPriority[sorter.a] - PathPriority[sorter.b]]
    /\ UNCHANGED notSorter

NextRank == RankCompare

SpecRank == InitRank /\ [][NextRank]_vars

\* the set of tokens of a path: the path in lower case, split on separators
\* and on every other character that is no letter or digit
TokensOfPath ==
    [p \in PriorityPaths |-> Range(PathTokens(ReplaceBackslashes(ToLowerCase(p))))]

PriorityKeywords ==
    {"test", "tests", "spec", "specs", "controller", "controllers", "auth",
     "authorization", "route", "routes", "config", "configs", "model", "models",
     "service", "services", "job", "jobs", "migration", "migrations", "db",
     "database", "view", "views", "template", "templates"}

\* C16: the rank is decided by whole path tokens only: two paths with the
\* same set of tokens get the same rank, and a path none of whose tokens is
\* a keyword keeps the rank of everything else, whatever its longer tokens
\* or its extension contain.
C16_RankByTokensOnly ==
    sorter.pc = "done" =>
        /\ TokensOfPath[sorter.a] = TokensOfPath[sorter.b] => sorter.result = 0
        /\ (/\ TokensOfPath[sorter.a] \cap PriorityKeywords = {}
            /\ TokensOfPath[sorter.b] \cap PriorityKeywords = {}) => sorter.result = 0

\* how many times a file is in the returned chunks
TimesChunked(f) ==
    LET out == AllChunkFiles(chunker.chunks)
    IN  Cardinality({i \in 1..Len(out) : out[i] = f})

RECURSIVE DedupFrom(_, _, _, _)
DedupFrom(findings, k, seen, result) ==
    IF k > Len(findings) THEN result
    ELSE IF FindingKey(findings[k]) \in seen
         THEN DedupFrom(findings, k + 1, seen, result)
    ELSE IF hasNearDuplicate(result, findings[k])
         THEN DedupFrom(findings, k + 1, seen, result)
    ELSE DedupFrom(findings, k + 1, seen \cup {FindingKey(findings[k])},
                   Append(result, findings[k]))

deduplicateFindings(findings) == DedupFrom(findings, 1, {}, <<>>)

\* the function and the stepwise run agree on what is returned
DedupAgree ==
    (dedup.pc = "returned" /\ dedup.pass = 1) =>
        dedup.result = deduplicateFindings(dedup.findings)

\* Bound of the number of chunks of a run.
MaxChunks == 3

\* what parseFindings can read from the reply to one chunk, before the ids
ChunkReplies ==
    { <<>>,
      << [file |-> "a.x", startLine |-> 10, endLine |-> 12, title |-> "Null check missing"] >>,
      << [file |-> "a.x", startLine |-> 11, endLine |-> 13, title |-> "Missing null check"],
         [file |-> "b.x", startLine |-> 10, endLine |-> 12, title |-> "Null check missing"] >>,
      << [file |-> "a.x", startLine |-> 13, endLine |-> 14, title |-> "check?"] >> }

\* config.maxFindings of a run
ReviewMaxFindings == {1, 2}

\* id: nextFindingId(): the ids go on from the last one given
WithIdsFrom(fs, last) ==
    [k \in 1..Len(fs) |->
        [id |-> last + k, file |-> fs[k].file, startLine |-> fs[k].startLine,
         endLine |-> fs[k].endLine, title |-> fs[k].title]]

\* The run enters the chunk loop with its own fresh cancellation token:
\* nothing before the loop is awaited.
InitReview ==
    /\ \E n \in 0..MaxChunks, maxFindings \in ReviewMaxFindings :
         review = [pc |-> "loop", chunkCount |-> n, i |-> 1, cancelled |-> FALSE,
                   config |-> [maxFindings |-> maxFindings],
                   submitted |-> <<>>, allFindings |-> <<>>, lastId |-> 0,
                   chunkTasks |-> <<>>, warnings |-> <<>>,
                   taskList |-> <<>>, comments |-> <<>>, sessions |-> <<>>,
                   reviewState |-> "reviewing"]
    /\ dedup = Idle
    /\ chunker = Idle
    /\ parser = Idle
    /\ builder = Idle
    /\ sorter = Idle
    /\ finder = Idle
    /\ store = Idle
    /\ sender = Idle
    /\ extension = Idle

\* the user cancels, or a new run cancels this one, while the run awaits
\* the reply to a chunk
ReviewCancel ==
    /\ review.pc = "awaiting"
    /\ ~review.cancelled
    /\ review' = [review EXCEPT !.cancelled = TRUE]
    /\ UNCHANGED notReview

\* if (token.isCancellationRequested) { break; }
ReviewBreak ==
    /\ review.pc = "loop"
    /\ review.i <= review.chunkCount
    /\ review.cancelled
    /\ review' = [review EXCEPT !.pc = "after"]
    /\ UNCHANGED notReview

\* the task of the chunk is added, reviewChunk is called and awaited
ReviewSubmit ==
    /\ review.pc = "loop"
    /\ review.i <= review.chunkCount
    /\ ~review.cancelled
    /\ review' = [review EXCEPT
          !.pc = "awaiting",
          !.submitted = Append(@, review.i),
          !.chunkTasks = Append(@, [status |-> "running", findings |-> <<>>])]
    /\ UNCHANGED notReview

\* reviewChunk returns: [] when cancellation is requested, else what
\* parseFindings reads, cut to config.maxFindings;
\* allFindings.push(...findings), the task is done
ReviewChunkReturns ==
    /\ review.pc = "awaiting"
    /\ \E reply \in ChunkReplies :
         LET findings == IF review.cancelled THEN <<>>
                         ELSE WithIdsFrom(Slice(reply, 0, review.config.maxFindings),
                                          review.lastId)
         IN  review' = [review EXCEPT
                !.pc = "loop",
                !.i = @ + 1,
                !.lastId = @ + Len(findings),
                !.allFindings = @ \o findings,
                !.chunkTasks[review.i] = [status |-> "done", findings |-> findings]]
    /\ UNCHANGED notReview

\* mutation: the failure of a chunk ends the loop
ReviewChunkThrowsAndStops ==
    /\ review.pc = "awaiting"
    /\ review' = [review EXCEPT
          !.pc = "after",
          !.chunkTasks[review.i] = [status |-> "error", findings |-> <<>>],
          !.warnings = Append(@, review.i)]
    /\ UNCHANGED notReview

\* reviewChunk throws: the catch of the loop body marks the task, warns,
\* and the loop goes on
ReviewChunkThrows ==
    /\ review.pc = "awaiting"
    /\ review' = [review EXCEPT
          !.pc = "loop",
          !.i = @ + 1,
          !.chunkTasks[review.i] = [status |-> "error", findings |-> <<>>],
          !.warnings = Append(@, review.i)]
    /\ UNCHANGED notReview

\* the loop is over
ReviewLoopEnd ==
    /\ review.pc = "loop"
    /\ review.i > review.chunkCount
    /\ review' = [review EXCEPT !.pc = "after"]
    /\ UNCHANGED notReview

\* mutation: a cancelled run publishes nothing
CancelledAtAll == review.cancelled

\* wasCancelled && allFindings.length === 0
CancelledEmptyHanded == review.cancelled /\ review.allFindings = <<>>

\* updateStatusBar('idle'); sidebar.setReviewState('idle'); return;
ReviewReturnIdle ==
    /\ review.pc = "after"
    /\ CancelledEmptyHanded
    /\ review' = [review EXCEPT !.pc = "returned", !.reviewState = "idle"]
    /\ UNCHANGED notReview

\* post-processing: deduplicate, set the task list, add the comments, save
\* the session, with partial: true when the run was cancelled
ReviewPublish ==
    /\ review.pc = "after"
    /\ ~CancelledEmptyHanded
    /\ LET deduped == deduplicateFindings(review.allFindings)
       IN  review' = [review EXCEPT
              !.pc = "returned",
              !.taskList = deduped,
              !.comments = deduped,
              !.reviewState = "done",
              !.sessions = Append(@, [findings |-> deduped,
                                      partial |-> review.cancelled])]
    /\ UNCHANGED notReview

NextReview ==
    \/ ReviewCancel
    \/ ReviewBreak
    \/ ReviewSubmit
    \/ ReviewChunkReturns
    \/ ReviewChunkThrows
    \/ ReviewLoopEnd
    \/ ReviewReturnIdle
    \/ ReviewPublish

SpecReview == InitReview /\ [][NextReview]_vars

(***************************************************************************)
(* Properties of a review run                                              *)
(***************************************************************************)
\* the findings of the chunks whose task is done, in chunk order
RECURSIVE CompletedFindings(_)
CompletedFindings(tasks) ==
    IF tasks = <<>> THEN <<>>
    ELSE (IF Head(tasks).status = "done" THEN Head(tasks).findings ELSE <<>>)
            \o CompletedFindings(Tail(tasks))

Published(findings) ==
    /\ review.taskList = findings
    /\ review.comments = findings
    /\ Len(review.sessions) = 1
    /\ review.sessions[1].findings = findings

Severities == {"blocker", "high", "medium", "low", "nit"}

\* severityRank: undefined (<<>>) for a name that is no severity
severityRank(severity) ==
    IF severity = "blocker" THEN <<5>>
    ELSE IF severity = "high" THEN <<4>>
    ELSE IF severity = "medium" THEN <<3>>
    ELSE IF severity = "low" THEN <<2>>
    ELSE IF severity = "nit" THEN <<1>>
    ELSE <<>>

\* a text property is truthy unless it is undefined or ''
TruthyText(opt) == opt # <<>> /\ opt[1] # ""

\* text || default
TextOr(opt, default) == IF TruthyText(opt) THEN opt[1] ELSE default

\* number || default: undefined and 0 are falsy
NumberOr(opt, default) == IF opt # <<>> /\ opt[1] # 0 THEN opt[1] ELSE default

\* f.file && f.startLine != null && f.title
IsComplete(f) == TruthyText(f.file) /\ f.startLine # <<>> /\ TruthyText(f.title)

\* severityRank((f.severity || 'low')) >= threshold: a comparison with
\* undefined is false
IsSevereEnough(f, threshold) ==
    LET rank == severityRank(TextOr(f.severity, "low"))
    IN  rank # <<>> /\ threshold # <<>> /\ rank[1] >= threshold[1]

\* the object the map callback builds
AsFinding(f, id) ==
    [id |-> id,
     file |-> f.file[1],
     startLine |-> f.startLine[1],
     endLine |-> NumberOr(f.endLine, f.startLine[1]),
     severity |-> TextOr(f.severity, "medium"),
     title |-> f.title[1],
     status |-> "open"]

\* Bound of the length of the array in the reply.
MaxRawFindings == 2

RawLineRanges == {<<>>, <<0>>, <<10>>} \X {<<>>, <<0>>, <<5>>, <<12>>}

RawFindings ==
    { [file |-> <<"a.x">>, startLine |-> r[1], endLine |-> r[2],
       severity |-> sev, title |-> <<"Null check missing">>] :
        r \in RawLineRanges, sev \in {<<>>, <<"high">>} }
    \cup { [file |-> <<>>, startLine |-> <<10>>, endLine |-> <<12>>,
            severity |-> <<"high">>, title |-> <<"Null check missing">>],
           [file |-> <<"a.x">>, startLine |-> <<10>>, endLine |-> <<12>>,
            severity |-> <<"high">>, title |-> <<"">>] }

RawArrays == UNION { [1..n -> RawFindings] : n \in 0..MaxRawFindings }

\* JSON.parse gave an array: rawFindings = direct
InitFind ==
    /\ \E raw \in RawArrays, threshold \in {"low", "high"},
          maxFindings \in {1, MaxRawFindings} :
         finder = [pc |-> "complete", rawFindings |-> raw,
                   config |-> [severityThreshold |-> threshold,
                               maxFindings |-> maxFindings],
                   list |-> raw, findings |-> <<>>]
    /\ dedup = Idle
    /\ chunker = Idle
    /\ parser = Idle
    /\ builder = Idle
    /\ sorter = Idle
    /\ review = Idle
    /\ store = Idle
    /\ sender = Idle
    /\ extension = Idle

\* .filter(f => f.file && f.startLine != null && f.title)
FindKeepComplete ==
    /\ finder.pc = "complete"
    /\ finder' = [finder EXCEPT !.pc = "severe",
                                !.list = SelectSeq(@, IsComplete)]
    /\ UNCHANGED notFinder

\* .filter(f => severityRank((f.severity || 'low')) >= threshold)
FindKeepSevere ==
    /\ finder.pc = "severe"
    /\ LET threshold == severityRank(finder.config.severityThreshold)
       IN  finder' = [finder EXCEPT
              !.pc = "slice",
              !.list = SelectSeq(@, LAMBDA f : IsSevereEnough(f, threshold))]
    /\ UNCHANGED notFinder

\* .slice(0, config.maxFindings)
FindSlice ==
    /\ finder.pc = "slice"
    /\ finder' = [finder EXCEPT !.pc = "map",
                                !.list = Slice(@, 0, finder.config.maxFindings)]
    /\ UNCHANGED notFinder

\* .map(f => ({ id: nextFindingId(), ... })) and return
FindMap ==
    /\ finder.pc = "map"
    /\ finder' = [finder EXCEPT
          !.pc = "returned",
          !.findings = [k \in 1..Len(finder.list) |-> AsFinding(finder.list[k], k)]]
    /\ UNCHANGED notFinder

NextFind ==
    \/ FindKeepComplete
    \/ FindKeepSevere
    \/ FindSlice
    \/ FindMap

SpecFind == InitFind /\ [][NextFind]_vars

\* C20: every finding returned by parseFindings satisfies
\* startLine <= endLine.
C20_StartLineNotAfterEndLine ==
    finder.pc = "returned" =>
        \A k \in 1..Len(finder.findings) :
            finder.findings[k].startLine <= finder.findings[k].endLine

\* C21: after any run, the number of findings collected from all chunks
\* and the number of findings published are <= config.maxFindings.
C21_AtMostMaxFindingsPerReview ==
    review.pc = "returned" =>
        /\ Len(review.allFindings) <= review.config.maxFindings
        /\ Len(review.taskList) <= review.config.maxFindings

(***************************************************************************)
(* Segments of parseDiff whose header line does not match                  *)
(***************************************************************************)
\* what parseDiff returns for OtherFileSegment when it is the whole diff
OtherFileRecord ==
    [path |-> "g.x",
     hunks |-> << [file |-> "g.x", oldStart |-> 5, oldLines |-> 1, newStart |-> 7,
                   newLines |-> 1, header |-> "", content |-> "@@ -5 +7 @@\n+a",
                   addedLines |-> <<7>>, removedLines |-> <<>>] >>,
     isNew |-> FALSE, isDeleted |-> FALSE, isBinary |-> FALSE]

\* C22: a segment whose header line cannot be matched produces no record,
\* and the records of the other segments are what they are without it: the
\* records are those of the segments with a matching header and a path
\* that is not excluded, in their order, and the segment of another file
\* has the record it has when it is the whole diff.
C22_UnmatchedSegmentSkipped ==
    parser.pc = "done" =>
        /\ Len(parser.files) = KeptUpTo(parser.s)
        /\ \A p \in 1..parser.s :
              IsKept(parser.segments[p]) =>
                 parser.files[KeptUpTo(p)].path
                    = MatchHeaderLine(parser.segments[p].lines[1])[1]
        /\ \A p \in 1..parser.s :
              parser.segments[p] = OtherFileSegment =>
                 parser.files[KeptUpTo(p)] = OtherFileRecord

\* a diff of three segments is parsed to the end: the first has a record
\* with a hunk, the second has a header line that does not match, the
\* third is the segment of another file
C22_Witness ==
    /\ parser.pc = "done"
    /\ parser.s = 3
    /\ Len(parser.segments) = 3
    /\ parser.segments[2] = UnmatchedSegment
    /\ parser.segments[3] = OtherFileSegment
    /\ Len(parser.files) = 2
    /\ parser.files[1].path = "f.x"
    /\ parser.files[1].hunks # <<>>
    /\ parser.files[2] = OtherFileRecord

(***************************************************************************)
(* The text of a hunk (parseDiff)                                          *)
(***************************************************************************)
\* the lines of a hunk's content after its first line that start with '+'
PlusLinesOfContent(content) ==
    LET ls == SplitLines(content)
    IN  Cardinality({j \in 2..Len(ls) : StartsWith(ls[j], "+")})

\* C27: the content of a hunk is its header line followed by every line
\* of its body, verbatim and in order, and has as many '+'-prefixed body
\* lines as the hunk has addedLines entries.
C27_ContentIsHeaderAndBody ==
    parser.pc = "done" =>
        \A k \in 1..Len(ParsedHunks) :
            /\ ParsedHunks[k].content
                  = Join(<<parser.lines[HeaderPosition(k)]>> \o HunkBody(k), "\n")
            /\ PlusLinesOfContent(ParsedHunks[k].content) = Len(ParsedHunks[k].addedLines)

(***************************************************************************)
(* ReviewStore (reviewStore.ts): the history kept in the workspace state   *)
(* and the writers save, delete, clearAll and updateFindings, which run    *)
(* through _serialized.  A call is in the state "waiting" until its        *)
(* function starts, "updating" while state.update is in flight, and        *)
(* "fulfilled" or "rejected" once the promise returned to the caller has   *)
(* settled.                                                                *)
(***************************************************************************)
\* MAX_HISTORY is 50 in the source; the model keeps a shorter history.
MAX_HISTORY == 2

MaxWrites == 3

SessionId(n) == "r" \o ToString(n)

OneOpenFinding == << [file |-> "a.x", status |-> "open"] >>

StoredSession(n, timestamp) ==
    [id |-> SessionId(n), timestamp |-> timestamp, findings |-> OneOpenFinding,
     summary |-> [totalFindings |-> 1, openCount |-> 1, fileCount |-> 1]]

\* the sessions save is called with: one more id than the history holds,
\* the first two of the same timestamp, and a later session of the first id
SavedSessions ==
    {StoredSession(n, Max(n - 1, 1)) : n \in 1..(MAX_HISTORY + 1)}
       \cup {StoredSession(1, MAX_HISTORY + 1)}

UpdatedFindings ==
    << [file |-> "a.x", status |-> "skipped"], [file |-> "b.x", status |-> "open"] >>

Writes ==
    {[op |-> "save", id |-> session.id, session |-> <<session>>, findings |-> <<>>] :
        session \in SavedSessions}
       \cup {[op |-> "delete", id |-> SessionId(1), session |-> <<>>, findings |-> <<>>]}
       \cup {[op |-> "clearAll", id |-> "", session |-> <<>>, findings |-> <<>>]}
       \cup {[op |-> "updateFindings", id |-> id, session |-> <<>>,
              findings |-> UpdatedFindings] : id \in {SessionId(1), SessionId(MAX_HISTORY + 1)}}

\* the writes that are called while earlier ones are in flight
ConcurrentWrites ==
    {write \in Writes :
        \/ write.op = "updateFindings" /\ write.id = SessionId(1)
        \/ write.op = "save" /\ write.session[1] \in {StoredSession(1, 1), StoredSession(2, 1)}}

\* all.findIndex(r => r.id === id), counted from 1; 0 for -1
FindIndexOfId(all, id) ==
    LET hits == {k \in 1..Len(all) : all[k].id = id}
    IN  IF hits = {} THEN 0 ELSE CHOOSE k \in hits : \A j \in hits : k <= j

\* Array.prototype.sort is stable: a session goes behind the sessions that
\* are as new as it is
InsertNewestFirst(sorted, session) ==
    LET before == {k \in 1..Len(sorted) : sorted[k].timestamp >= session.timestamp}
        n == Cardinality(before)
    IN  SubSeq(sorted, 1, n) \o <<session>> \o SubSeq(sorted, n + 1, Len(sorted))

\* .sort((a, b) => b.timestamp - a.timestamp)
RECURSIVE SortNewestFirst(_)
SortNewestFirst(all) ==
    IF all = <<>> THEN <<>>
    ELSE InsertNewestFirst(SortNewestFirst(SubSeq(all, 1, Len(all) - 1)), all[Len(all)])

\* mutation: save without .slice(0, MAX_HISTORY)
SaveValueUntrimmed(all, session) ==
    LET idx == FindIndexOfId(all, session.id)
        placed == IF idx > 0 THEN [all EXCEPT ![idx] = session] ELSE <<session>> \o all
    IN  SortNewestFirst(placed)

\* save: what it hands to state.update
SaveValue(all, session) ==
    LET idx == FindIndexOfId(all, session.id)
        placed == IF idx > 0 THEN [all EXCEPT ![idx] = session] ELSE <<session>> \o all
    IN  Slice(SortNewestFirst(placed), 0, MAX_HISTORY)

\* delete: all.filter(r => r.id !== id)
DeleteValue(all, id) == SelectSeq(all, LAMBDA r : r.id # id)

\* updateFindings: all.map(r => r.id === sessionId ? {...} : r)
UpdateFindingsValue(all, sessionId, findings) ==
    [k \in 1..Len(all) |->
        IF all[k].id = sessionId
        THEN [all[k] EXCEPT
                !.findings = findings,
                !.summary =
                    [totalFindings |-> Len(findings),
                     openCount |-> Cardinality({j \in 1..Len(findings) :
                                                  findings[j].status = "open"}),
                     fileCount |-> Cardinality({findings[j].file : j \in 1..Len(findings)})]]
        ELSE all[k]]

\* if (!all.some(r => r.id === sessionId)) { return; }
ReturnsWithoutUpdate(all, write) ==
    write.op = "updateFindings" /\ FindIndexOfId(all, write.id) = 0

\* the value a writer hands to state.update when it reads all
WriteValue(all, write) ==
    CASE write.op = "save" -> SaveValue(all, write.session[1])
      [] write.op = "delete" -> DeleteValue(all, write.id)
      [] write.op = "clearAll" -> <<>>
      [] write.op = "updateFindings" -> UpdateFindingsValue(all, write.id, write.findings)

IsSettled(call) == call.state \in {"fulfilled", "rejected"}

\* mutation: this._writeLock = p
LockFollowsPromise(k) == IF k = 0 THEN TRUE ELSE store.calls[k].state = "fulfilled"

\* this._writeLock after the k-th call: p.then(() => {}, (err) => {...})
\* is fulfilled once p has settled, whichever way; before the first call
\* the lock is Promise.resolve()
LockFulfilled(k) == IF k = 0 THEN TRUE ELSE IsSettled(store.calls[k])

InitStore ==
    /\ store = [history |-> <<>>, calls |-> <<>>]
    /\ dedup = Idle
    /\ chunker = Idle
    /\ parser = Idle
    /\ builder = Idle
    /\ sorter = Idle
    /\ review = Idle
    /\ finder = Idle
    /\ sender = Idle
    /\ extension = Idle

\* save, delete, clearAll, updateFindings: return this._serialized(...);
\* const p = this._writeLock.then(fn) runs fn later
CallWrite(write) ==
    /\ Len(store.calls) < MaxWrites
    /\ store' = [store EXCEPT !.calls =
          Append(@, [write |-> write, state |-> "waiting", value |-> <<>>,
                     stored |-> FALSE,
                     unsettledBefore |->
                        Cardinality({k \in 1..Len(store.calls) :
                                       ~IsSettled(store.calls[k])})])]
    /\ UNCHANGED notStore

\* a caller that does not wait for the writes called before
StoreCall == \E write \in ConcurrentWrites : CallWrite(write)

\* a caller that awaits every write before it calls the next
StoreCallAwaited ==
    /\ \A k \in 1..Len(store.calls) : IsSettled(store.calls[k])
    /\ \E write \in Writes : CallWrite(write)

\* fn starts: it reads the history and calls state.update, or returns
StoreBegin ==
    /\ \E k \in 1..Len(store.calls) :
         /\ store.calls[k].state = "waiting"
         /\ LockFulfilled(k - 1)
         /\ store' = [store EXCEPT !.calls[k] =
              IF ReturnsWithoutUpdate(store.history, store.calls[k].write)
              THEN [@ EXCEPT !.state = "fulfilled"]
              ELSE [@ EXCEPT !.state = "updating",
                             !.value = <<WriteValue(store.history,
                                                    store.calls[k].write)>>]]
    /\ UNCHANGED notStore

\* await this.state.update(STORAGE_KEY, value) is fulfilled
StoreUpdateDone ==
    /\ \E k \in 1..Len(store.calls) :
         /\ store.calls[k].state = "updating"
         /\ store' = [store EXCEPT !.history = store.calls[k].value[1],
                                   !.calls[k].state = "fulfilled",
                                   !.calls[k].stored = TRUE]
    /\ UNCHANGED notStore

\* await this.state.update(STORAGE_KEY, value) is rejected; the workspace
\* state has taken the value or has not
StoreUpdateFails ==
    /\ \E k \in 1..Len(store.calls), stored \in BOOLEAN :
         /\ store.calls[k].state = "updating"
         /\ store' = [store EXCEPT
              !.history = IF stored THEN store.calls[k].value[1] ELSE @,
              !.calls[k].state = "rejected",
              !.calls[k].stored = stored]
    /\ UNCHANGED notStore

NextStore ==
    \/ StoreCall
    \/ StoreBegin
    \/ StoreUpdateDone
    \/ StoreUpdateFails

SpecStore == InitStore /\ [][NextStore]_vars

NextHistory ==
    \/ StoreCallAwaited
    \/ StoreBegin
    \/ StoreUpdateDone
    \/ StoreUpdateFails

\* every sequence of writes, each awaited
SpecHistory == InitStore /\ [][NextHistory]_vars

\* the history after the first n calls have run one after the other, each
\* on the history the one before left
RECURSIVE HistoryAfter(_)
HistoryAfter(n) ==
    IF n = 0 THEN <<>>
    ELSE LET call == store.calls[n]
             before == HistoryAfter(n - 1)
         IN  IF call.stored THEN WriteValue(before, call.write) ELSE before

Started(call) == call.state # "waiting"

\* C23: the writes run one at a time in call order, each on the history
\* the previous one left, so the history is that of the calls applied in
\* call order; a call is rejected only when its own update failed, and a
\* rejected call does not keep the next one from starting.
C23_WritesSerialized ==
    /\ \A j, k \in 1..Len(store.calls) :
          (j < k /\ Started(store.calls[k])) => IsSettled(store.calls[j])
    /\ store.history = HistoryAfter(Len(store.calls))
    /\ \A k \in 1..Len(store.calls) :
          /\ store.calls[k].state = "updating"
                => store.calls[k].value[1]
                      = WriteValue(HistoryAfter(k - 1), store.calls[k].write)
          /\ (store.calls[k].state = "waiting" /\ \A j \in 1..(k - 1) : IsSettled(store.calls[j]))
                => LockFulfilled(k - 1)

\* three writes were called before the first one had settled; the second
\* was rejected, the third ran after it on the history of the first
C23_Witness ==
    /\ Len(store.calls) = 3
    /\ store.calls[3].unsettledBefore = 2
    /\ store.calls[1].state = "fulfilled"
    /\ store.calls[1].write.op = "save"
    /\ store.calls[2].state = "rejected"
    /\ ~store.calls[2].stored
    /\ store.calls[3].state = "fulfilled"
    /\ store.calls[3].write.op = "updateFindings"
    /\ Len(store.history) = 1
    /\ store.history[1].findings = UpdatedFindings

HistoryIds == {store.history[k].id : k \in 1..Len(store.history)}

LastCall == store.calls[Len(store.calls)]

\* C26: the history holds at most MAX_HISTORY sessions, no two of the same
\* id, newest first by timestamp; a save of a stored id replaces that
\* session, and updateFindings for an id that is not stored leaves the
\* history as it was.
C26_HistoryCappedUniqueNewestFirst ==
    /\ Len(store.history) <= MAX_HISTORY
    /\ Cardinality(HistoryIds) = Len(store.history)
    /\ \A a, b \in 1..Len(store.history) :
          a < b => store.history[a].timestamp >= store.history[b].timestamp
    /\ (store.calls # <<>> /\ IsSettled(LastCall)) =>
          LET before == HistoryAfter(Len(store.calls) - 1)
              idsBefore == {before[k].id : k \in 1..Len(before)}
          IN  /\ (LastCall.write.op = "save" /\ LastCall.stored
                     /\ LastCall.write.id \in idsBefore)
                    => /\ Len(store.history) = Len(before)
                       /\ HistoryIds = idsBefore
                       /\ LastCall.write.session[1] \in Range(store.history)
              /\ (LastCall.write.op = "updateFindings" /\ LastCall.write.id \notin idsBefore)
                    => store.history = before

\* MAX_HISTORY + 1 sessions of different ids were saved one after the
\* other, the oldest was dropped; then the newest id was saved again
C26_Witness ==
    /\ Len(store.calls) = MAX_HISTORY + 1
    /\ \A k \in 1..Len(store.calls) :
          /\ store.calls[k].write.op = "save"
          /\ store.calls[k].state = "fulfilled"
    /\ Cardinality({store.calls[k].write.id : k \in 1..Len(store.calls)}) = MAX_HISTORY + 1
    /\ Len(store.history) = MAX_HISTORY

(***************************************************************************)
(* ReviewEngine.sendRequestWithRetry and ensureModel (reviewer.ts)         *)
(***************************************************************************)
ClaudeModel == [id |-> "m2", family |-> "claude-sonnet"]

SmallModel == [id |-> "m1", family |-> "gpt-3.5-turbo"]

\* what vscode.lm.selectChatModels may return
ModelLists == {<<>>, <<SmallModel>>, <<SmallModel, ClaudeModel>>}

SelectedModelIds == {<<>>, <<"m1">>, <<"m9">>}

\* what model.sendRequest may throw: an error has an optional code and an
\* optional message
SendErrors ==
    { [code |-> <<"model-not-found">>, message |-> <<"gone">>],
      [code |-> <<>>, message |-> <<"Model is not available">>],
      [code |-> <<"quota-exceeded">>, message |-> <<"Rate limit reached">>],
      [code |-> <<>>, message |-> <<"Canceled">>],
      [code |-> <<>>, message |-> <<>>] }

\* mutation: every error is taken for a stale model
IsAnyError(err) == TRUE

\* err?.code === 'model-not-found' || err?.message?.includes('not available')
IsStale(err) ==
    \/ err.code = <<"model-not-found">>
    \/ err.message # <<>> /\ Includes(err.message[1], "not available")

PrefersFamily(model) == Includes(model.family, "claude") \/ Includes(model.family, "gpt-4")

\* ensureModel after selectChatModels: the model of _selectedModelId, else
\* the first model of a preferred family, else models[0]
PickModel(models, selectedModelId) ==
    LET byId == {k \in 1..Len(models) :
                    selectedModelId # <<>> /\ models[k].id = selectedModelId[1]}
        preferred == {k \in 1..Len(models) : PrefersFamily(models[k])}
        First(ks) == CHOOSE k \in ks : \A j \in ks : k <= j
    IN  IF byId # {} THEN models[First(byId)]
        ELSE IF preferred # {} THEN models[First(preferred)]
        ELSE models[1]

NoModelError ==
    [code |-> <<>>,
     message |-> <<"No Copilot language model available. Make sure GitHub Copilot is installed and signed in.">>]

\* The cached model carries the number of the selectChatModels call that
\* chose it; 0 for a model cached before the request.
InitSend ==
    /\ \E cached \in {<<>>, <<[model |-> SmallModel, selection |-> 0]>>},
          selectedModelId \in SelectedModelIds :
         sender = [pc |-> "ensure", attempt |-> 1, model |-> cached,
                   selectedModelId |-> selectedModelId, selections |-> 0,
                   using |-> <<>>, cancelled |-> FALSE, sends |-> <<>>,
                   thrown |-> <<>>]
    /\ dedup = Idle
    /\ chunker = Idle
    /\ parser = Idle
    /\ builder = Idle
    /\ sorter = Idle
    /\ review = Idle
    /\ finder = Idle
    /\ store = Idle
    /\ extension = Idle

SendInFlight == sender.pc \in {"ensure", "selecting", "sending"}

\* the token's source is cancelled while the request is in flight
SendCancel ==
    /\ SendInFlight
    /\ ~sender.cancelled
    /\ sender' = [sender EXCEPT !.cancelled = TRUE]
    /\ UNCHANGED notSender

\* setModel(modelId), called while the request is in flight
SendSetModel ==
    /\ SendInFlight
    /\ \E modelId \in SelectedModelIds :
         /\ modelId # sender.selectedModelId
         /\ sender' = [sender EXCEPT !.selectedModelId = modelId, !.model = <<>>]
    /\ UNCHANGED notSender

\* const model = await this.ensureModel(): if (this.model) { return this.model; }
SendEnsureModel ==
    /\ sender.pc = "ensure"
    /\ sender' = IF sender.model # <<>>
                 THEN [sender EXCEPT !.pc = "sending", !.using = sender.model]
                 ELSE [sender EXCEPT !.pc = "selecting"]
    /\ UNCHANGED notSender

\* selectChatModels returns: throw when there is no model, else cache one
SendModelsSelected ==
    /\ sender.pc = "selecting"
    /\ \E models \in ModelLists :
         sender' =
            IF models = <<>>
            THEN [sender EXCEPT !.pc = "thrown", !.thrown = <<NoModelError>>,
                                !.selections = @ + 1]
            ELSE LET chosen == [model |-> PickModel(models, sender.selectedModelId),
                                selection |-> sender.selections + 1]
                 IN  [sender EXCEPT !.pc = "sending", !.selections = @ + 1,
                                    !.model = <<chosen>>, !.using = <<chosen>>]
    /\ UNCHANGED notSender

\* return await model.sendRequest(messages, options, token);
SendFulfilled ==
    /\ sender.pc = "sending"
    /\ sender' = [sender EXCEPT
         !.pc = "returned",
         !.sends = Append(@, [model |-> sender.using[1], error |-> <<>>,
                              cancelled |-> sender.cancelled])]
    /\ UNCHANGED notSender

\* sendRequest throws: the catch block of the first send, or the error of
\* the second send leaving the function
SendRejected ==
    /\ sender.pc = "sending"
    /\ \E err \in SendErrors :
         LET sent == Append(sender.sends, [model |-> sender.using[1], error |-> <<err>>,
                                           cancelled |-> sender.cancelled])
         IN  sender' =
                IF sender.attempt = 1 /\ IsStale(err) /\ ~sender.cancelled
                THEN [sender EXCEPT !.pc = "selecting", !.attempt = 2, !.model = <<>>,
                                    !.using = <<>>, !.sends = sent]
                ELSE [sender EXCEPT !.pc = "thrown", !.thrown = <<err>>, !.sends = sent]
    /\ UNCHANGED notSender

NextSend ==
    \/ SendCancel
    \/ SendSetModel
    \/ SendEnsureModel
    \/ SendModelsSelected
    \/ SendFulfilled
    \/ SendRejected

SpecSend == InitSend /\ [][NextSend]_vars

\* the errors the claim calls stale-model errors
StaleModelErrors ==
    { [code |-> <<"model-not-found">>, message |-> <<"gone">>],
      [code |-> <<>>, message |-> <<"Model is not available">>] }

\* C25: at most two sends; a second send only after the first failed with
\* a stale-model error while no cancellation was requested, with a model
\* selected after the first send; any other first error, and the error of
\* the second send, is thrown as it is.
C25_AtMostOneRetryOnStaleModel ==
    /\ Len(sender.sends) <= 2
    /\ Len(sender.sends) = 2 =>
          /\ sender.sends[1].error # <<>>
          /\ sender.sends[1].error[1] \in StaleModelErrors
          /\ ~sender.sends[1].cancelled
          /\ sender.sends[2].model.selection > sender.sends[1].model.selection
    /\ (sender.pc = "sending" /\ sender.attempt = 2) =>
          sender.using[1].selection > sender.sends[1].model.selection
    /\ (sender.sends # <<>> /\ sender.pc \in {"returned", "thrown"}) =>
          LET first == sender.sends[1]
              last == sender.sends[Len(sender.sends)]
          IN  /\ (first.error # <<>>
                    /\ (first.error[1] \notin StaleModelErrors \/ first.cancelled))
                   => sender.pc = "thrown" /\ sender.thrown = first.error
                         /\ Len(sender.sends) = 1
              /\ (Len(sender.sends) = 2 /\ last.error # <<>>)
                   => sender.pc = "thrown" /\ sender.thrown = last.error
              /\ last.error = <<>> => sender.pc = "returned"

\* the first send failed because the cached model was gone, the second
\* went to a newly selected model and failed with a quota error, which
\* was thrown
C25_Witness ==
    /\ sender.pc = "thrown"
    /\ Len(sender.sends) = 2
    /\ sender.sends[1].model.selection = 0
    /\ sender.sends[1].error = <<[code |-> <<"model-not-found">>, message |-> <<"gone">>]>>
    /\ sender.sends[2].model.selection = 1
    /\ sender.sends[2].error
          = <<[code |-> <<"quota-exceeded">>, message |-> <<"Rate limit reached">>]>>
    /\ sender.thrown = sender.sends[2].error

(***************************************************************************)
(* The extension (extension.ts): the task list, the comment threads, the   *)
(* stored sessions, currentSessionId, currentSelection, activeTokenSource, *)
(* the runs of runReview and the fix command in flight.  A run is          *)
(* "reviewing" while it awaits the chunk reviews, "saving" while it awaits *)
(* reviewStore.save; it leaves runs once its finally block has run.  The   *)
(* chunk loop itself is SpecReview; here a run finds a finding or none.    *)
(***************************************************************************)
MaxRuns == 2

FoundFinding(n, k) ==
    [id |-> "f" \o ToString(n) \o "-" \o ToString(k), file |-> "a.x", status |-> "open"]

\* what the chunk loop and deduplicateFindings leave the n-th run with
FoundChoices(n) == {<<>>, <<FoundFinding(n, 1)>>}

IdsOf(findings) == {findings[k].id : k \in 1..Len(findings)}

TaskListIds == IdsOf(extension.taskList)

ThreadIds == {thread.id : thread \in extension.threads}

\* commentManager.clearAll(); taskListProvider.clearAll();
ClearedViews(e) == [e EXCEPT !.threads = {}, !.taskList = <<>>]

\* CommentManager.addFinding for each finding: this.threads.set(finding.id, thread)
WithThreadsOf(threads, findings) ==
    {thread \in threads : thread.id \notin IdsOf(findings)}
       \cup {[id |-> id, resolved |-> FALSE] : id \in IdsOf(findings)}

\* CommentManager.resolveFinding
ResolvedThread(threads, id) ==
    {IF thread.id = id THEN [thread EXCEPT !.resolved = TRUE] ELSE thread : thread \in threads}

\* TaskListProvider.updateFinding(id, { status })
WithStatus(findings, id, status) ==
    [k \in 1..Len(findings) |->
        IF findings[k].id = id THEN [findings[k] EXCEPT !.status = status] ELSE findings[k]]

\* persistFindings: if (currentSessionId) { reviewStore.updateFindings(...) }
Persisted(e) ==
    IF e.currentSessionId = <<>> \/ FindIndexOfId(e.stored, e.currentSessionId[1]) = 0
    THEN e
    ELSE [e EXCEPT !.stored = UpdateFindingsValue(@, e.currentSessionId[1], e.taskList)]

\* activeTokenSource.cancel(), seen by the run that holds the source
Cancelled(runs, source) ==
    {IF source = <<run.n>> THEN [run EXCEPT !.cancelled = TRUE] ELSE run : run \in runs}

\* runReview up to its first await: the source of the run before is
\* cancelled, currentSessionId and activeTokenSource are set; the run then
\* awaits the chunk reviews, or it returns early (no changes, all files
\* excluded, an error) and its finally block runs at once
Begun(e, enters) ==
    LET n == e.started + 1
        cancelledRuns == Cancelled(e.runs, e.activeTokenSource)
    IN  [e EXCEPT
           !.started = n,
           !.runs = IF enters
                    THEN cancelledRuns \cup {[n |-> n, pc |-> "reviewing", cancelled |-> FALSE]}
                    ELSE cancelledRuns,
           !.currentSessionId = <<SessionId(n)>>,
           !.activeTokenSource = IF enters THEN <<n>> ELSE <<>>]

InitExtension ==
    /\ extension = [taskList |-> <<>>, threads |-> {}, stored |-> <<>>,
                    currentSessionId |-> <<>>, currentSelection |-> FALSE,
                    activeTokenSource |-> <<>>, started |-> 0, runs |-> {},
                    fix |-> <<>>, fixSucceeded |-> {}]
    /\ dedup = Idle
    /\ chunker = Idle
    /\ parser = Idle
    /\ builder = Idle
    /\ sorter = Idle
    /\ review = Idle
    /\ finder = Idle
    /\ store = Idle
    /\ sender = Idle

\* selfReview.reviewBranch with branches that exist
ReviewBranch ==
    /\ extension.started < MaxRuns
    /\ \E enters \in BOOLEAN :
         extension' = Begun([extension EXCEPT !.currentSelection = TRUE], enters)
    /\ UNCHANGED notExtension

\* selfReview.reviewFile with an active editor
ReviewFile ==
    /\ extension.started < MaxRuns
    /\ \E enters \in BOOLEAN : extension' = Begun(extension, enters)
    /\ UNCHANGED notExtension

\* selfReview.refreshReview: without a selection it runs reviewBranch
RefreshReview ==
    /\ extension.started < MaxRuns
    /\ \E enters \in BOOLEAN :
         extension' =
            IF ~extension.currentSelection
            THEN Begun([extension EXCEPT !.currentSelection = TRUE], enters)
            ELSE Begun(ClearedViews(extension), enters)
    /\ UNCHANGED notExtension

\* selfReview.clearReview
ClearReview ==
    /\ extension' = [ClearedViews(extension) EXCEPT !.currentSelection = FALSE]
    /\ UNCHANGED notExtension

\* the sidebar's openReview message for a stored session without modelId;
\* the merge base is found or not
OpenReview ==
    /\ \E k \in 1..Len(extension.stored), found \in BOOLEAN :
         LET session == extension.stored[k]
         IN  extension' = [extension EXCEPT
                !.threads = WithThreadsOf({}, session.findings),
                !.taskList = session.findings,
                !.currentSessionId = <<session.id>>,
                !.currentSelection = IF found THEN TRUE ELSE @]
    /\ UNCHANGED notExtension

\* selfReview.backToHistory
BackToHistory ==
    /\ extension' = [ClearedViews(extension) EXCEPT
         !.currentSessionId = <<>>, !.currentSelection = FALSE]
    /\ UNCHANGED notExtension

\* the sidebar's stopReview message, and deactivate
StopReview ==
    /\ extension.activeTokenSource # <<>>
    /\ Cancelled(extension.runs, extension.activeTokenSource) # extension.runs
    /\ extension' = [extension EXCEPT !.runs = Cancelled(@, extension.activeTokenSource)]
    /\ UNCHANGED notExtension

\* the chunk loop of a run is over: return when cancelled with no finding,
\* else publish the findings and call reviewStore.save
RunLoopEnds ==
    /\ \E run \in extension.runs, saved \in BOOLEAN : \E found \in FoundChoices(run.n) :
         /\ run.pc = "reviewing"
         /\ extension' =
              IF run.cancelled /\ found = <<>>
              THEN [extension EXCEPT !.runs = @ \ {run}, !.activeTokenSource = <<>>]
              ELSE [extension EXCEPT
                      !.runs = (@ \ {run}) \cup {[run EXCEPT !.pc = "saving"]},
                      !.taskList = found,
                      !.threads = WithThreadsOf(@, found),
                      !.stored =
                          IF saved
                          THEN SaveValue(@,
                                 [id |-> SessionId(run.n), timestamp |-> run.n,
                                  findings |-> found,
                                  summary |-> [totalFindings |-> Len(found),
                                               openCount |-> Len(found),
                                               fileCount |-> Cardinality({found[k].file :
                                                                k \in 1..Len(found)})]])
                          ELSE @]
    /\ UNCHANGED notExtension

\* await reviewStore.save(session) settles; the finally block runs
RunSaveSettles ==
    /\ \E run \in extension.runs :
         /\ run.pc = "saving"
         /\ extension' = [extension EXCEPT !.runs = @ \ {run}, !.activeTokenSource = <<>>]
    /\ UNCHANGED notExtension

\* selfReview.skipFinding (from a thread) and selfReview.skipTreeItem
SkipFinding ==
    /\ \E id \in ThreadIds \cup TaskListIds :
         extension' = Persisted([extension EXCEPT
            !.threads = ResolvedThread(@, id),
            !.taskList = WithStatus(@, id, "skipped")])
    /\ UNCHANGED notExtension

\* a fix command of one finding up to the await of its fix action:
\* getFinding(findingId) has found the finding
FixOneBegin ==
    /\ extension.fix = <<>>
    /\ \E id \in TaskListIds :
         extension' = [extension EXCEPT !.fix = <<[all |-> FALSE, ids |-> {id}]>>]
    /\ UNCHANGED notExtension

\* selfReview.fixInline: fixActions.fixInline
FixInline == FixOneBegin

\* selfReview.fixInChat: fixActions.fixInChat
FixInChat == FixOneBegin

\* selfReview.fixInEdits: fixActions.fixInEdits
FixInEdits == FixOneBegin

\* selfReview.fixTreeItem: fixActions.fixInline
FixTreeItem == FixOneBegin

\* fixAllInFile up to the await: getFileFindings gives the open findings
FixAllInFileBegin ==
    /\ extension.fix = <<>>
    /\ \E file \in {extension.taskList[k].file : k \in 1..Len(extension.taskList)} :
         extension' = [extension EXCEPT !.fix =
            <<[all |-> TRUE,
               ids |-> {f.id : f \in {g \in Range(extension.taskList) :
                                         g.file = file /\ g.status = "open"}}]>>]
    /\ UNCHANGED notExtension

RECURSIVE MarkedFixed(_, _)
MarkedFixed(e, ids) ==
    IF ids = {} THEN e
    ELSE LET id == CHOOSE x \in ids : TRUE
         IN  MarkedFixed([e EXCEPT !.threads = ResolvedThread(@, id),
                                   !.taskList = WithStatus(@, id, "fixed")],
                         ids \ {id})

\* the fix action returns: the single fixes mark the finding when it
\* returned true; fixAllInFile does not look at what it returned
FixReturns ==
    /\ extension.fix # <<>>
    /\ \E result \in BOOLEAN :
         LET fix == extension.fix[1]
             logged == [extension EXCEPT
                          !.fix = <<>>,
                          !.fixSucceeded = IF result THEN @ \cup fix.ids ELSE @]
         IN  /\ (fix.all /\ fix.ids = {}) => ~result
             /\ extension' =
                   IF fix.all
                   THEN Persisted(MarkedFixed(logged, fix.ids))
                   ELSE IF result THEN Persisted(MarkedFixed(logged, fix.ids))
                   ELSE logged
    /\ UNCHANGED notExtension

NextExtension ==
    \/ ReviewBranch
    \/ ReviewFile
    \/ RefreshReview
    \/ ClearReview
    \/ OpenReview
    \/ BackToHistory
    \/ StopReview
    \/ RunLoopEnds
    \/ RunSaveSettles
    \/ SkipFinding
    \/ FixInline
    \/ FixInChat
    \/ FixInEdits
    \/ FixTreeItem
    \/ FixAllInFileBegin
    \/ FixReturns

SpecExtension == InitExtension /\ [][NextExtension]_vars

\* C24: while a run has not finished and has not been cancelled,
\* activeTokenSource is that run's token source.
C24_ActiveTokenSourceIsTheRunning ==
    \A run \in extension.runs :
        ~run.cancelled => extension.activeTokenSource = <<run.n>>

\* C28: the comment threads are exactly those of the findings in the task
\* list.
C28_ThreadsAreTheTaskList == ThreadIds = TaskListIds

\* C29: when the task list shows findings of a stored session,
\* currentSessionId is that session's id and the stored findings are those
\* of the task list, status included.
C29_StatusChangesReachTheSession ==
    \A k \in 1..Len(extension.stored) :
        (TaskListIds \cap IdsOf(extension.stored[k].findings) # {})
            => /\ extension.currentSessionId = <<extension.stored[k].id>>
               /\ extension.stored[k].findings = extension.taskList

\* C30: a finding has the status 'fixed' only when a fix action for it
\* returned true.
C30_FixedOnlyAfterSuccess ==
    \A k \in 1..Len(extension.taskList) :
        extension.taskList[k].status = "fixed"
            => extension.taskList[k].id \in extension.fixSucceeded
====
